---- MODULE Spec2Model ----
(***************************************************************************)
(* Message orchestration pipeline of the conversational gateway:           *)
(* app/services/orchestrator.py, database_service.py, ai_service.py and    *)
(* rag_service.py.                                                         *)
(*                                                                         *)
(* Time is the wall clock (datetime.utcnow / time.time) in whole minutes.  *)
(* Rows of a table are kept in insertion order and a row's id is its       *)
(* position (the uuid primary keys are opaque).  Python's None is the      *)
(* string "None" for string fields, the empty sequence for Optional        *)
(* numbers and objects, and id 0 for "no row".                             *)
(***************************************************************************)
EXTENDS Integers, Sequences, FiniteSets, TLC

VARIABLES
    now,            \* the clock, minutes
    users,          \* table users
    conversations,  \* table conversations
    messages,       \* table messages
    run,            \* per pipeline run: the locals of process_message
    obs,            \* per run: observations (history variables, not program state)
    started,        \* number of inbound messages accepted so far
    collections,    \* Qdrant: names of the existing collections
    points,         \* Qdrant: the stored points
    indexed,        \* observation: (tenant, content) pairs ever passed to add_document
    rag,            \* the last knowledge-base call and its result
    returned,       \* observation: (tenant, content, id) of every add_document that returned
    resolved,       \* observation: every user resolution, (identity, user row)
    generated,      \* observation: (user row, lead_status) of every generate_ai_response return
    webhook,        \* the last call of the WhatsApp webhook and its response
    task,           \* per run slot: the background task process_and_respond_whatsapp
    outbox,         \* the messages created through the Twilio client, in order
    saving,         \* per run slot: the session of a save_message between its awaits
    fetched,        \* the last direct call of get_conversation_history and its result
    updated,        \* the last direct call of update_user_lead_status
    detected        \* the last call of detect_escalation_patterns and its result

vars == <<now, users, conversations, messages, run, obs, started,
          collections, points, indexed, rag, returned, resolved, generated, webhook,
          task, outbox, saving, fetched, updated, detected>>

dbVars == <<users, conversations, messages>>
ragVars == <<collections, points, indexed, rag, returned>>
\* what only the webhook, its background task, the stepwise save and the
\* direct history call write
callVars == <<updated, detected>>
ioVars == <<webhook, task, outbox, saving, fetched, callVars>>

----------------------------------------------------------------------------
(* Bounds of the model *)

MaxRuns == 2
MaxMessages == 3
MaxTurns == 6
MaxGenerations == 2
MaxDocs == 3

Runs == 1..MaxRuns

----------------------------------------------------------------------------
(* Program constants *)

TimeoutMinutes == 30
HistoryLimit == 10
ContextLimit == 3
MsPerMinute == 60000

None == "None"

Channels == {"whatsapp", "messenger", "voice", "web"}

OrchestratorFallback ==
    [message |-> "Disculpa, tuve un problema. ¿Podrías intentar de nuevo?",
     action |-> None, lead_status |-> None, confidence |-> 0]

\* a provider-error fallback that carries a lead status
ApiErrorFallbackWithLead ==
    [message |-> "Disculpa, tengo problemas técnicos. ¿Podrías intentar de nuevo?",
     action |-> None, lead_status |-> "interesado", confidence |-> 0]

ApiErrorFallback ==
    [message |-> "Disculpa, tengo problemas técnicos. ¿Podrías intentar de nuevo?",
     action |-> None, lead_status |-> None, confidence |-> 0]

\* a fallback that carries the text of the exception
ErrorFallbackWithCause ==
    [message |-> "Ocurrió un error: Connection error.",
     action |-> None, lead_status |-> None, confidence |-> 0]

ErrorFallback ==
    [message |-> "Ocurrió un error. Por favor intenta de nuevo.",
     action |-> None, lead_status |-> None, confidence |-> 0]

\* confidence is kept in tenths: 0.9 is 9, 0.0 is 0
SuccessConfidence == 9

EscalationKeywords ==
    { <<"h","u","m","a","n","o">>, <<"p","e","r","s","o","n","a">>,
      <<"a","s","e","s","o","r">>, <<"q","u","e","j","a">>,
      <<"s","u","p","e","r","v","i","s","o","r">>, <<"g","e","r","e","n","t","e">> }

SchedulingKeywords ==
    { <<"c","i","t","a">>, <<"a","g","e","n","d","a","r">>,
      <<"r","e","s","e","r","v","a","r">>, <<"a","p","a","r","t","a","r">>,
      <<"p","r","o","g","r","a","m","a","r">> }

----------------------------------------------------------------------------
(* Inputs: the message texts the model draws from, with their characters *)

Chars ==
    [t \in {"hola", "Hola", "una CITA", "un humano", "felicitaciones",
            "cita con un ASESOR", "un asesor humano", ""} |->
        CASE t = "hola" -> <<"h","o","l","a">>
          [] t = "Hola" -> <<"H","o","l","a">>
          [] t = "una CITA" -> <<"u","n","a"," ","C","I","T","A">>
          [] t = "un humano" -> <<"u","n"," ","h","u","m","a","n","o">>
          [] t = "felicitaciones" ->
                <<"f","e","l","i","c","i","t","a","c","i","o","n","e","s">>
          [] t = "cita con un ASESOR" ->
                <<"c","i","t","a"," ","c","o","n"," ","u","n"," ",
                  "A","S","E","S","O","R">>
          [] t = "un asesor humano" ->
                <<"u","n"," ","a","s","e","s","o","r"," ","h","u","m","a","n","o">>
          [] t = "" -> << >>]

Texts == DOMAIN Chars

Upper == <<"A","B","C","D","E","F","G","H","I","J","K","L","M",
           "N","O","P","Q","R","S","T","U","V","W","X","Y","Z">>
LowerOf == <<"a","b","c","d","e","f","g","h","i","j","k","l","m",
             "n","o","p","q","r","s","t","u","v","w","x","y","z">>

\* str.lower(), character by character
LowerChar(c) ==
    IF \E i \in 1..Len(Upper) : Upper[i] = c
    THEN LowerOf[CHOOSE i \in 1..Len(Upper) : Upper[i] = c]
    ELSE c

\* a comparison that keeps the case of the text
LowerNot(s) == s

Lower(s) == [i \in 1..Len(s) |-> LowerChar(s[i])]

\* Python's `word in text` on strings: substring
Contains(s, w) ==
    \E i \in 1..(Len(s) - Len(w) + 1) : SubSeq(s, i, i + Len(w) - 1) = w

ContainsAny(text, keywords) ==
    \E w \in keywords : Contains(Lower(Chars[text]), w)

----------------------------------------------------------------------------
(* Optional values *)

Nothing == << >>
Some(x) == <<x>>

----------------------------------------------------------------------------
(* NormalizedMessage *)

NormalizedMessage(company, user, channel, text) ==
    [company_id |-> company, user_id |-> user, channel |-> channel, message |-> text]

NoMessage == NormalizedMessage("", "", "", "")

IdleRun ==
    [pc |-> "idle", message |-> NoMessage, start_time |-> 0,
     found |-> 0, user |-> 0, conversation |-> 0,
     history |-> << >>, response |-> Nothing, response_time_ms |-> Nothing,
     result |-> Nothing]

IdleObs ==
    [trace |-> << >>, failed_step |-> None, inbound |-> 0, outbound |-> 0,
     cause |-> None, prior |-> << >>, reused |-> FALSE, matching |-> {},
     looked_up |-> 0, arrival |-> 0, request |-> Nothing, created_user |-> FALSE,
     prev |-> Nothing, lead_before |-> None, answered |-> {},
     base |-> [users |-> 0, conversations |-> 0, messages |-> 0],
     generated_at |-> 0]

----------------------------------------------------------------------------
(* Tables *)

\* models/user.py: a row of users
NewUser(company_id, channel, channel_user_id) ==
    [company_id |-> company_id,
     whatsapp_id |-> IF channel = "whatsapp" THEN channel_user_id ELSE None,
     messenger_id |-> IF channel = "messenger" THEN channel_user_id ELSE None,
     phone |-> IF channel = "voice" THEN channel_user_id ELSE None,
     lead_status |-> "nuevo",
     created_at |-> now,
     updated_at |-> now,
     last_interaction |-> now]

\* a select that leaves out the tenant
UserQueryAnyTenant(company_id, channel, channel_user_id) ==
    { i \in 1..Len(users) :
        CASE channel = "whatsapp" -> users[i].whatsapp_id = channel_user_id
          [] channel = "messenger" -> users[i].messenger_id = channel_user_id
          [] OTHER -> users[i].phone = channel_user_id }

\* the select of get_or_create_user: the ids of the rows it matches
UserQuery(company_id, channel, channel_user_id) ==
    { i \in 1..Len(users) :
        /\ users[i].company_id = company_id
        /\ CASE channel = "whatsapp" -> users[i].whatsapp_id = channel_user_id
             [] channel = "messenger" -> users[i].messenger_id = channel_user_id
             [] OTHER -> users[i].phone = channel_user_id }

\* unique=True on users.whatsapp_id and users.messenger_id (NULLs never collide)
UniqueViolation(u) ==
    \E i \in 1..Len(users) :
        \/ u.whatsapp_id # None /\ users[i].whatsapp_id = u.whatsapp_id
        \/ u.messenger_id # None /\ users[i].messenger_id = u.messenger_id

\* Result.scalar_one_or_none(): the row, no row (0), or MultipleResultsFound
MultipleResultsFound(rows) == Cardinality(rows) > 1
ScalarOneOrNone(rows) == IF rows = {} THEN 0 ELSE CHOOSE i \in rows : TRUE

\* models/conversation.py: a row of conversations
NewConversation(user_id, channel) ==
    [user_id |-> user_id, channel |-> channel, status |-> "active",
     started_at |-> now, ended_at |-> Nothing, last_message_at |-> now]

\* a select whose window excludes its boundary
ConversationQueryStrict(user_id, channel, timeout_minutes) ==
    LET cutoff_time == now - timeout_minutes
    IN { i \in 1..Len(conversations) :
            /\ conversations[i].user_id = user_id
            /\ conversations[i].channel = channel
            /\ conversations[i].status = "active"
            /\ conversations[i].last_message_at > cutoff_time }

\* the select of get_or_create_conversation
ConversationQuery(user_id, channel, timeout_minutes) ==
    LET cutoff_time == now - timeout_minutes
    IN { i \in 1..Len(conversations) :
            /\ conversations[i].user_id = user_id
            /\ conversations[i].channel = channel
            /\ conversations[i].status = "active"
            /\ conversations[i].last_message_at >= cutoff_time }

\* a row that does not keep the text
NewMessageWithoutText(conversation_id, role, content, response_time_ms) ==
    [conversation_id |-> conversation_id, role |-> role, content |-> "",
     response_time_ms |-> response_time_ms, created_at |-> now]

\* models/conversation.py: a row of messages
NewMessage(conversation_id, role, content, response_time_ms) ==
    [conversation_id |-> conversation_id, role |-> role, content |-> content,
     response_time_ms |-> response_time_ms, created_at |-> now]

\* a save that keeps one row where two of the same role follow each other
SaveMessageRowsLastWins(conversation_id, role, content, response_time_ms) ==
    IF /\ messages # << >>
       /\ messages[Len(messages)].conversation_id = conversation_id
       /\ messages[Len(messages)].role = role
    THEN [messages EXCEPT ![Len(messages)] =
            NewMessage(conversation_id, role, content, response_time_ms)]
    ELSE Append(messages, NewMessage(conversation_id, role, content, response_time_ms))

\* a save that writes over the last row of the table
SaveMessageRowsOverLast(conversation_id, role, content, response_time_ms) ==
    IF messages = << >>
    THEN <<NewMessage(conversation_id, role, content, response_time_ms)>>
    ELSE [messages EXCEPT ![Len(messages)] =
            NewMessage(conversation_id, role, content, response_time_ms)]

\* save_message: the tables after the commit. The message row and the
\* conversation's last_message_at are written by the same commit.
SaveMessageRows(conversation_id, role, content, response_time_ms) ==
    Append(messages, NewMessage(conversation_id, role, content, response_time_ms))

\* a save that ends the conversation it appends to
SaveMessageConversationsEnds(conversation_id) ==
    [i \in 1..Len(conversations) |->
        IF i = conversation_id
        THEN [conversations[i] EXCEPT !.last_message_at = now, !.ended_at = Some(now)]
        ELSE conversations[i]]

SaveMessageConversations(conversation_id) ==
    [i \in 1..Len(conversations) |->
        IF i = conversation_id
        THEN [conversations[i] EXCEPT !.last_message_at = now]
        ELSE conversations[i]]

\* ids of the messages of a conversation, oldest first. created_at grows with
\* the insertion order, so ORDER BY created_at is the order of the table.
ConversationMessageIds(conversation_id) ==
    SelectSeq([i \in 1..Len(messages) |-> i],
              LAMBDA i : messages[i].conversation_id = conversation_id)

\* the oldest n entries instead of the most recent
FirstN(s, n) == IF Len(s) <= n THEN s ELSE SubSeq(s, 1, n)

LastN(s, n) == IF Len(s) <= n THEN s ELSE SubSeq(s, Len(s) - n + 1, Len(s))

\* get_conversation_history: ORDER BY created_at DESC LIMIT limit, reversed,
\* reduced to role and content. mid is an observation: the row an entry came from.
GetConversationHistory(conversation_id, limit) ==
    LET ids == LastN(ConversationMessageIds(conversation_id), limit)
    IN [k \in 1..Len(ids) |->
            [role |-> messages[ids[k]].role,
             content |-> messages[ids[k]].content,
             mid |-> ids[k]]]

\* a call get_conversation_history(conversation_id, limit) made directly.
\* size is an observation: the number of rows of messages at the call.
NoHistoryCall ==
    [conversation_id |-> 0, limit |-> 0, history |-> << >>, size |-> 0]

GetConversationHistoryCall(conversation_id, limit) ==
    /\ fetched' = [conversation_id |-> conversation_id, limit |-> limit,
                   history |-> GetConversationHistory(conversation_id, limit),
                   size |-> Len(messages)]
    /\ UNCHANGED <<now, dbVars, run, obs, started, ragVars, resolved, generated,
                   webhook, task, outbox, saving, callVars>>

\* an update that only moves a lead forward
UpdateUserLeadStatusForward(user_id, status) ==
    [i \in 1..Len(users) |->
        IF i = user_id /\ users[i].lead_status \in {"nuevo", "interesado"}
        THEN [users[i] EXCEPT !.lead_status = status, !.updated_at = now]
        ELSE users[i]]

\* update_user_lead_status: the users table after the commit
UpdateUserLeadStatus(user_id, status) ==
    [i \in 1..Len(users) |->
        IF i = user_id
        THEN [users[i] EXCEPT !.lead_status = status, !.updated_at = now]
        ELSE users[i]]

\* a failed update whose write is kept
UpdateFailedAfterWrite(user_id, status) ==
    [i \in 1..Len(users) |->
        IF i = user_id THEN [users[i] EXCEPT !.lead_status = status] ELSE users[i]]

\* update_user_lead_status when the select or the commit raises: the session
\* is left without a commit and the users table is as before
UpdateFailed(user_id, status) == users

\* a call update_user_lead_status(user_id, status) made directly, the storage
\* working. n counts the calls; before is an observation, the lead status of
\* the row before the call (None when no row has the id).
NoLeadCall ==
    [n |-> 0, user_id |-> 0, status |-> None, before |-> None, raised |-> FALSE]

UpdateUserLeadStatusCall(user_id, status) ==
    /\ users' = UpdateUserLeadStatus(user_id, status)
    /\ updated' = [n |-> updated.n + 1, user_id |-> user_id, status |-> status,
                   before |-> IF user_id \in 1..Len(users)
                              THEN users[user_id].lead_status ELSE None,
                   raised |-> FALSE]
    /\ UNCHANGED <<now, conversations, messages, run, obs, started, ragVars,
                   resolved, generated, webhook, task, outbox, saving, fetched,
                   detected>>

\* detect_escalation_patterns: the keywords, in the order of the loop
escalation_keywords ==
    <<<<"h","u","m","a","n","o">>, <<"p","e","r","s","o","n","a">>,
      <<"a","s","e","s","o","r">>, <<"q","u","e","j","a">>,
      <<"s","u","p","e","r","v","i","s","o","r">>>>

\* Message.content.ilike('%keyword%'): substring, case ignored
Ilike(content, keyword) == Contains(Lower(Chars[content]), Lower(keyword))

\* the rows both queries join and filter: the messages of role user whose
\* conversation belongs to a user of the tenant
TenantUserMessages(company_id) ==
    { i \in 1..Len(messages) :
        /\ messages[i].role = "user"
        /\ users[conversations[messages[i].conversation_id].user_id].company_id
              = company_id }

\* select count(Message.id) ... ilike, for one keyword
KeywordCount(company_id, keyword) ==
    Cardinality({ i \in TenantUserMessages(company_id) :
                    Ilike(messages[i].content, keyword) })

\* the loop: escalation_count += the count of each keyword, one after another
RECURSIVE EscalationCount(_, _)
EscalationCount(company_id, k) ==
    IF k = 0 THEN 0
    ELSE EscalationCount(company_id, k - 1)
           + KeywordCount(company_id, escalation_keywords[k])

Max(a, b) == IF a >= b THEN a ELSE b

\* round(count / max(total, 1) * 100, 2), kept in hundredths of a percent:
\* 200.0 is 20000. No quotient within the bounds lies halfway between two
\* hundredths, so the rounding mode plays no part.
EscalationRate(escalation_count, total_user_messages) ==
    (2 * escalation_count * 10000 + Max(total_user_messages, 1))
        \div (2 * Max(total_user_messages, 1))

DetectEscalationPatterns(company_id) ==
    LET total_user_messages == Cardinality(TenantUserMessages(company_id))
        escalation_count ==
            IF total_user_messages > 0
            THEN EscalationCount(company_id, Len(escalation_keywords))
            ELSE 0
        escalation_rate == EscalationRate(escalation_count, total_user_messages)
    IN [total_messages |-> total_user_messages,
        escalation_requests |-> escalation_count,
        escalation_rate_percent |-> escalation_rate,
        status |-> IF escalation_rate < 1000 THEN "healthy" ELSE "needs_attention"]

\* a call detect_escalation_patterns(company_id), its queries reading one
\* state of the tables. rows is an observation: the rows the first query
\* counted.
NoDetectCall ==
    [called |-> FALSE, company_id |-> None, rows |-> {},
     result |-> [total_messages |-> 0, escalation_requests |-> 0,
                 escalation_rate_percent |-> 0, status |-> "healthy"]]

DetectEscalationPatternsCall(company_id) ==
    /\ detected' = [called |-> TRUE, company_id |-> company_id,
                    rows |-> TenantUserMessages(company_id),
                    result |-> DetectEscalationPatterns(company_id)]
    /\ UNCHANGED <<now, dbVars, run, obs, started, ragVars, resolved, generated,
                   webhook, task, outbox, saving, fetched, updated>>

\* the transcript of a conversation as role/content pairs
Transcript(conversation_id) ==
    LET ids == ConversationMessageIds(conversation_id)
    IN [k \in 1..Len(ids) |->
            [role |-> messages[ids[k]].role, content |-> messages[ids[k]].content]]

----------------------------------------------------------------------------
(* process_message: control *)

\* an order in which the history is fetched before the inbound message is saved
PipelineFetchFirst ==
    <<"received", "user_resolved", "conversation_resolved", "history_fetched",
      "inbound_persisted", "generated", "outbound_persisted", "lead_updated", "done">>

\* the states of one run, in the order of the statements of process_message
Pipeline ==
    <<"received", "user_resolved", "conversation_resolved", "inbound_persisted",
      "history_fetched", "generated", "outbound_persisted", "lead_updated", "done">>

After(state) == Pipeline[(CHOOSE k \in 1..Len(Pipeline) : Pipeline[k] = state) + 1]

\* a try block that opens only after the user is resolved
TryBlockAfterUser ==
    {"get_or_create_conversation", "save_message",
     "get_conversation_history", "generate_ai_response", "update_user_lead_status"}

\* the calls inside the try block of process_message
TryBlock ==
    {"get_or_create_user", "get_or_create_conversation", "save_message",
     "get_conversation_history", "generate_ai_response", "update_user_lead_status"}

\* an exception that is logged, the run going on to generation
RaiseAndGoOn(r, step, cause) ==
    /\ run' = [run EXCEPT ![r].pc = "history_fetched"]
    /\ obs' = [obs EXCEPT ![r].failed_step = step, ![r].cause = cause]

\* an exception of `step` in run r: the except clause returns the fallback;
\* outside the try block it would reach the caller
Raise(r, step, cause) ==
    /\ run' = [run EXCEPT ![r] =
                IF step \in TryBlock
                THEN [@ EXCEPT !.pc = "failed", !.result = Some(OrchestratorFallback)]
                ELSE [@ EXCEPT !.pc = "raised"]]
    /\ obs' = [obs EXCEPT ![r].failed_step = step, ![r].cause = cause]

\* a test that every value passes
TruthyAlways(s) == TRUE

\* Python truthiness of an Optional[str]
Truthy(s) == s # None /\ s # ""

Finished(r) == run[r].pc \in {"idle", "done", "failed", "raised"}

----------------------------------------------------------------------------
(* process_message: the steps. `ok` is whether the storage works for the call *)

\* observation: the run that used slot r before, when it reached done
PreviousRun(r) ==
    IF run[r].pc = "done"
    THEN Some([message |-> run[r].message, arrival |-> obs[r].arrival,
               user |-> run[r].user, conversation |-> run[r].conversation,
               last_activity |-> conversations[run[r].conversation].last_message_at])
    ELSE Nothing

\* observation: the messages process_message has returned in slot r
Answers(r) ==
    obs[r].answered \cup
        (IF run[r].result # Nothing THEN {run[r].result[1].message} ELSE {})

\* process_message(m) is entered
Start(r, m) ==
    /\ run[r].pc \in {"idle", "done", "failed"}
    /\ started' = started + 1
    /\ run' = [run EXCEPT ![r] =
                [IdleRun EXCEPT !.pc = "received", !.message = m, !.start_time = now]]
    /\ obs' = [obs EXCEPT ![r] =
                [IdleObs EXCEPT !.trace = <<"received">>, !.arrival = now,
                                !.prev = PreviousRun(r),
                                !.answered = Answers(r),
                                !.base = [users |-> Len(users),
                                          conversations |-> Len(conversations),
                                          messages |-> Len(messages)]]]

\* a channel adapter calls process_message(m)
Receive(r, m) ==
    /\ Start(r, m)
    /\ UNCHANGED <<now, dbVars, ragVars, resolved, generated, ioVars>>

\* get_or_create_user, up to the result of the select
UserSelect(r, ok) ==
    /\ run[r].pc = "received"
    /\ LET m == run[r].message
           rows == UserQuery(m.company_id, m.channel, m.user_id)
       IN IF ~ok THEN Raise(r, "get_or_create_user", "storage")
          ELSE IF MultipleResultsFound(rows)
          THEN Raise(r, "get_or_create_user", "MultipleResultsFound")
          ELSE /\ run' = [run EXCEPT ![r].pc = "user_selected",
                                     ![r].found = ScalarOneOrNone(rows)]
               /\ UNCHANGED obs
    /\ UNCHANGED <<now, dbVars, started, ragVars, resolved, generated, ioVars>>

\* get_or_create_user, the commit: the update of last_interaction or the insert
UserCommit(r, ok) ==
    /\ run[r].pc = "user_selected"
    /\ LET m == run[r].message
           u == NewUser(m.company_id, m.channel, m.user_id)
           done(id) ==
               /\ run' = [run EXCEPT ![r].pc = After("received"), ![r].user = id]
               /\ obs' = [obs EXCEPT ![r].trace = Append(@, After("received")),
                                     ![r].created_user = (run[r].found = 0),
                                     ![r].lead_before = users'[id].lead_status]
               /\ resolved' = resolved \cup
                      {[company_id |-> m.company_id, channel |-> m.channel,
                        user_id |-> m.user_id, user |-> id]}
       IN IF ~ok
          THEN Raise(r, "get_or_create_user", "storage") /\ UNCHANGED <<users, resolved>>
          ELSE IF run[r].found # 0
          THEN /\ users' = [users EXCEPT ![run[r].found].last_interaction = now,
                                         ![run[r].found].updated_at = now]
               /\ done(run[r].found)
          ELSE IF UniqueViolation(u)
          THEN /\ Raise(r, "get_or_create_user", "IntegrityError")
               /\ UNCHANGED <<users, resolved>>
          ELSE /\ users' = Append(users, u)
               /\ done(Len(users) + 1)
    /\ UNCHANGED <<now, conversations, messages, started, ragVars, generated, ioVars>>

\* get_or_create_conversation, up to the result of the select; a conversation
\* that is found is returned without a further await
ConversationSelect(r, ok) ==
    /\ run[r].pc = "user_resolved"
    /\ LET rows == ConversationQuery(run[r].user, run[r].message.channel, TimeoutMinutes)
       IN IF ~ok THEN Raise(r, "get_or_create_conversation", "storage")
          ELSE IF MultipleResultsFound(rows)
          THEN /\ Raise(r, "get_or_create_conversation", "MultipleResultsFound")
          ELSE IF rows # {}
          THEN /\ run' = [run EXCEPT ![r].pc = After("user_resolved"),
                                     ![r].conversation = ScalarOneOrNone(rows)]
               /\ obs' = [obs EXCEPT ![r].trace = Append(@, After("user_resolved")),
                                     ![r].reused = TRUE, ![r].matching = rows,
                                     ![r].looked_up = now]
          ELSE /\ run' = [run EXCEPT ![r].pc = "conversation_selected"]
               /\ obs' = [obs EXCEPT ![r].matching = rows, ![r].looked_up = now]
    /\ UNCHANGED <<now, dbVars, started, ragVars, resolved, generated, ioVars>>

\* get_or_create_conversation, the insert of the new conversation
ConversationCommit(r, ok) ==
    /\ run[r].pc = "conversation_selected"
    /\ IF ~ok
       THEN Raise(r, "get_or_create_conversation", "storage") /\ UNCHANGED conversations
       ELSE /\ conversations' =
                  Append(conversations, NewConversation(run[r].user, run[r].message.channel))
            /\ run' = [run EXCEPT ![r].pc = After("user_resolved"),
                                  ![r].conversation = Len(conversations) + 1]
            /\ obs' = [obs EXCEPT ![r].trace = Append(@, After("user_resolved"))]
    /\ UNCHANGED <<now, users, messages, started, ragVars, resolved, generated, ioVars>>

\* save_message(conversation.id, "user", message.message)
PersistInbound(r, ok) ==
    /\ run[r].pc = "conversation_resolved"
    /\ IF ~ok
       THEN Raise(r, "save_message", "storage") /\ UNCHANGED <<conversations, messages>>
       ELSE /\ messages' = SaveMessageRows(run[r].conversation, "user",
                                           run[r].message.message, Nothing)
            /\ conversations' = SaveMessageConversations(run[r].conversation)
            /\ run' = [run EXCEPT ![r].pc = After("conversation_resolved")]
            /\ obs' = [obs EXCEPT ![r].trace = Append(@, After("conversation_resolved")),
                                  ![r].inbound = Len(messages) + 1,
                                  ![r].prior = Transcript(run[r].conversation)]
    /\ UNCHANGED <<now, users, started, ragVars, resolved, generated, ioVars>>

\* save_message of the inbound message, one await at a time. The session of
\* slot r holds the new Message, stamped with the clock when it is built
\* (database_service.py:123-132), and, once the select of the conversation
\* has returned, the last_message_at it read from the clock (134-140); the
\* commit writes both (142).
NoSave == [state |-> "none", created_at |-> 0, last_message_at |-> 0]

SaveAdd(r) ==
    /\ run[r].pc = "conversation_resolved"
    /\ saving[r].state = "none"
    /\ saving' = [saving EXCEPT ![r] = [NoSave EXCEPT !.state = "added",
                                                      !.created_at = now]]
    /\ UNCHANGED <<now, dbVars, run, obs, started, ragVars, resolved, generated,
                   webhook, task, outbox, fetched, callVars>>

SaveStamp(r) ==
    /\ saving[r].state = "added"
    /\ saving' = [saving EXCEPT ![r].state = "stamped",
                                ![r].last_message_at = now]
    /\ UNCHANGED <<now, dbVars, run, obs, started, ragVars, resolved, generated,
                   webhook, task, outbox, fetched, callVars>>

SaveCommit(r) ==
    /\ saving[r].state = "stamped"
    /\ messages' = Append(messages,
                          [NewMessage(run[r].conversation, "user",
                                      run[r].message.message, Nothing)
                             EXCEPT !.created_at = saving[r].created_at])
    /\ conversations' = [conversations EXCEPT
                            ![run[r].conversation].last_message_at =
                                saving[r].last_message_at]
    /\ saving' = [saving EXCEPT ![r] = NoSave]
    /\ run' = [run EXCEPT ![r].pc = After("conversation_resolved")]
    /\ obs' = [obs EXCEPT ![r].trace = Append(@, After("conversation_resolved")),
                          ![r].inbound = Len(messages) + 1,
                          ![r].prior = Transcript(run[r].conversation)]
    /\ UNCHANGED <<now, users, started, ragVars, resolved, generated,
                   webhook, task, outbox, fetched, callVars>>

\* a strip that drops every entry with the content of the current message
StripEveryMatch(history, text) ==
    SelectSeq(history, LAMBDA h : h.content # text)

\* no strip at all
StripNothing(history, text) == history

\* "Remover el ultimo mensaje (el actual) del historial"
StripCurrent(history, text) ==
    IF history # << >> /\ history[Len(history)].content = text
    THEN SubSeq(history, 1, Len(history) - 1)
    ELSE history

\* get_conversation_history(conversation.id, limit=10) and the strip that follows
FetchHistory(r, ok) ==
    /\ run[r].pc = "inbound_persisted"
    /\ IF ~ok
       THEN Raise(r, "get_conversation_history", "storage")
       ELSE /\ run' = [run EXCEPT
                  ![r].pc = After("inbound_persisted"),
                  ![r].history =
                      StripCurrent(GetConversationHistory(run[r].conversation, HistoryLimit),
                                   run[r].message.message)]
            /\ obs' = [obs EXCEPT ![r].trace = Append(@, After("inbound_persisted"))]
    /\ UNCHANGED <<now, dbVars, started, ragVars, resolved, generated, ioVars>>

----------------------------------------------------------------------------
(* rag_service.py: the knowledge base *)

\* one collection shared by every tenant
GetCollectionNameShared(company_id) == "company_docs"

\* get_collection_name: f"company_{company_id}_docs"
GetCollectionName(company_id) == "company_" \o company_id \o "_docs"

\* an id taken from a counter of the stored points
GenerateSequentialId(content) == 100 + Cardinality(points)

\* generate_numeric_id: int(md5(content).hexdigest()[:15], 16). The digest is
\* a fixed function of the content; the table gives it for the contents the
\* model draws from (the 60-bit values are abbreviated).
GenerateNumericId(content) ==
    CASE content = "X" -> 101
      [] content = "Y" -> 102
      [] OTHER -> 100

\* Python's {**a, **b}
Merge(a, b) ==
    [k \in DOMAIN a \cup DOMAIN b |-> IF k \in DOMAIN b THEN b[k] ELSE a[k]]

\* the payload add_document stores
Payload(company_id, content, metadata) ==
    Merge([content |-> content, company_id |-> company_id], metadata)

\* qdrant upsert: a point with the same id in the collection is replaced
Upsert(collection_name, doc_id, payload) ==
    { p \in points : ~(p.collection = collection_name /\ p.id = doc_id) }
        \cup {[collection |-> collection_name, id |-> doc_id, payload |-> payload]}

CollectionPoints(collection_name) == { p \in points : p.collection = collection_name }

\* one formatted result of search_documents
Document(p) ==
    [content |-> IF "content" \in DOMAIN p.payload THEN p.payload["content"] ELSE "",
     metadata |-> [k \in DOMAIN p.payload \ {"content"} |-> p.payload[k]]]

Min(a, b) == IF a <= b THEN a ELSE b

\* qdrant search: the `limit` nearest points of the collection, nearest first.
\* The embedding and the distance are the provider's, so any choice and any
\* order of min(limit, n) points of that collection is a possible answer.
SearchHits(collection_name, limit) ==
    LET pts == CollectionPoints(collection_name)
        k == Min(limit, Cardinality(pts))
    IN { hits \in [1..k -> pts] : \A i, j \in 1..k : i # j => hits[i] # hits[j] }

\* a try block that opens after the lookup of the collection
SearchTryAfterLookup == {"embedding", "search"}

\* the calls inside the try block of search_documents: get_collections and
\* get_collection, create_embedding, qdrant search
SearchTry == {"collections", "embedding", "search"}

\* whether search_documents raises when the call `failure` raises
SearchRaises(failure) == failure # "none" /\ failure \notin SearchTry

\* search_documents: the possible results. `failure` names the call that
\* raises ("none" when all work); an exception inside the try block gives
\* the empty list.
SearchDocuments(company_id, query, limit, failure) ==
    LET collection_name == GetCollectionName(company_id)
    IN IF failure # "none" \/ collection_name \notin collections
       THEN { << >> }
       ELSE { [i \in 1..Len(hits) |-> Document(hits[i])] :
                hits \in SearchHits(collection_name, limit) }

\* get_context_for_query: the contents put into the prompt, "" when none
GetContextForQuery(company_id, query, failure) ==
    { [i \in 1..Len(docs) |-> docs[i].content] :
        docs \in SearchDocuments(company_id, query, ContextLimit, failure) }

----------------------------------------------------------------------------
(* ai_service.py *)

\* a generator that derives the lead status before the call and keeps it in
\* the fallback
GenerateAiResponseKeepsLead(user_message, outcome, ai_message) ==
    [message |-> CASE outcome = "ok" -> ai_message
                   [] outcome = "api_error" -> ApiErrorFallback.message
                   [] OTHER -> ErrorFallback.message,
     action |-> IF outcome = "ok" /\ ContainsAny(user_message, EscalationKeywords)
                THEN "escalate" ELSE None,
     lead_status |-> IF ContainsAny(user_message, SchedulingKeywords)
                     THEN "caliente" ELSE "interesado",
     confidence |-> IF outcome = "ok" THEN SuccessConfidence ELSE 0]

\* generate_ai_response after the prompt is built: the call of the language
\* model and what follows. outcome is "ok" (the model returned ai_message),
\* "api_error" (openai.APIError) or "error" (any other exception).
GenerateAiResponse(user_message, outcome, ai_message) ==
    CASE outcome = "ok" ->
            [message |-> ai_message,
             action |-> IF ContainsAny(user_message, EscalationKeywords)
                        THEN "escalate" ELSE None,
             lead_status |-> IF ContainsAny(user_message, SchedulingKeywords)
                             THEN "caliente" ELSE "interesado",
             confidence |-> SuccessConfidence]
      [] outcome = "api_error" -> ApiErrorFallback
      [] OTHER -> ErrorFallback

GenerateOutcomes == {"ok", "api_error", "error"}

\* the role/content pairs of a history (what the language model is sent)
RoleContent(history) ==
    [k \in 1..Len(history) |-> [role |-> history[k].role, content |-> history[k].content]]

----------------------------------------------------------------------------
(* process_message: the steps, continued *)

\* generate_ai_response(...) and the latency measured when it returns.
\* `failure` names the retrieval call that raises; an exception that leaves
\* get_context_for_query is caught and the context stays empty.
\* the clock alone, not the time since the start
ResponseTimeMsOfClock(start_time) == now * MsPerMinute

\* response_time_ms = int((time.time() - start_time) * 1000), with the clock
\* in whole minutes
ResponseTimeMs(start_time) == (now - start_time) * MsPerMinute

Generate(r, outcome, ai_message, failure) ==
    /\ run[r].pc = "history_fetched"
    /\ \E context \in IF Truthy(run[r].message.company_id) /\ ~SearchRaises(failure)
                      THEN GetContextForQuery(run[r].message.company_id,
                                              run[r].message.message, failure)
                      ELSE { << >> } :
         /\ run' = [run EXCEPT
               ![r].pc = After("history_fetched"),
               ![r].response =
                   Some(GenerateAiResponse(run[r].message.message, outcome, ai_message)),
               ![r].response_time_ms = Some(ResponseTimeMs(run[r].start_time))]
         /\ obs' = [obs EXCEPT
               ![r].trace = Append(@, After("history_fetched")),
               ![r].generated_at = now,
               ![r].request = Some([context |-> context,
                                    history |-> RoleContent(run[r].history),
                                    mids |-> {run[r].history[k].mid :
                                                k \in 1..Len(run[r].history)},
                                    user_message |-> run[r].message.message,
                                    outcome |-> outcome,
                                    retrieval |-> failure])]
    /\ generated' = generated \cup
          {[user |-> run[r].user,
            lead_status |->
                GenerateAiResponse(run[r].message.message, outcome, ai_message).lead_status]}
    /\ UNCHANGED <<now, dbVars, started, ragVars, resolved, ioVars>>

\* save_message(conversation.id, "assistant", response.message, response_time_ms)
PersistOutbound(r, ok) ==
    /\ run[r].pc = "generated"
    /\ IF ~ok
       THEN Raise(r, "save_message", "storage") /\ UNCHANGED <<conversations, messages>>
       ELSE /\ messages' = SaveMessageRows(run[r].conversation, "assistant",
                                           run[r].response[1].message,
                                           run[r].response_time_ms)
            /\ conversations' = SaveMessageConversations(run[r].conversation)
            /\ run' = [run EXCEPT ![r].pc = After("generated")]
            /\ obs' = [obs EXCEPT ![r].trace = Append(@, After("generated")),
                                  ![r].outbound = Len(messages) + 1]
    /\ UNCHANGED <<now, users, started, ragVars, resolved, generated, ioVars>>

\* if response.lead_status: update_user_lead_status(user.id, response.lead_status)
UpdateLead(r, ok) ==
    /\ run[r].pc = "outbound_persisted"
    /\ Truthy(run[r].response[1].lead_status)
    /\ IF ~ok
       THEN /\ Raise(r, "update_user_lead_status", "storage")
            /\ users' = UpdateFailed(run[r].user, run[r].response[1].lead_status)
       ELSE /\ users' = UpdateUserLeadStatus(run[r].user, run[r].response[1].lead_status)
            /\ run' = [run EXCEPT ![r].pc = After("outbound_persisted")]
            /\ obs' = [obs EXCEPT ![r].trace = Append(@, After("outbound_persisted"))]
    /\ UNCHANGED <<now, conversations, messages, started, ragVars, resolved, generated, ioVars>>

\* return response
Return(r) ==
    /\ run[r].pc \in {"lead_updated", "outbound_persisted"}
    /\ run[r].pc = IF Truthy(run[r].response[1].lead_status)
                   THEN "lead_updated" ELSE "outbound_persisted"
    /\ run' = [run EXCEPT ![r].pc = "done", ![r].result = run[r].response]
    /\ obs' = [obs EXCEPT ![r].trace = Append(@, "done")]
    /\ UNCHANGED <<now, dbVars, started, ragVars, resolved, generated, ioVars>>

\* the clock advances to the instant t
Tick(t) ==
    /\ t > now
    /\ now' = t
    /\ UNCHANGED <<dbVars, run, obs, started, ragVars, resolved, generated, ioVars>>

----------------------------------------------------------------------------
(* api/webhooks/whatsapp.py *)

\* a test that lets every body through
HasBodyAlways(body) == TRUE

\* `if not body: return WebhookResponse(status="ok", ...)`
HasBody(body) == body # ""

\* the tenant the webhook normalizes every message to
WebhookCompany == "demo_company"

\* scheduled is an observation: whether the call added the background task
NoWebhookCall ==
    [from_number |-> "", to_number |-> "", body |-> "", status |-> None,
     message_id |-> None, scheduled |-> FALSE]

\* the background task of a slot: its two number arguments under the names
\* of the parameters of process_and_respond_whatsapp, and the events it logged
NoTask ==
    [state |-> "none", to_number |-> "", from_number |-> "", log |-> << >>]

\* add_task(process_and_respond_whatsapp, normalized, from_number, to_number):
\* the arguments are positional, the parameters are (message, to_number,
\* from_number)
AddTask(from_number, to_number) ==
    [state |-> "running", to_number |-> from_number, from_number |-> to_number,
     log |-> << >>]

\* whatsapp_webhook(From, Body, MessageSid): an empty body is acknowledged and
\* nothing else happens; otherwise the message is normalized, the background
\* task process_and_respond_whatsapp is added (it enters process_message in
\* slot r) and the call is acknowledged
WhatsappWebhook(r, from_number, to_number, body, message_sid) ==
    /\ IF ~HasBody(body)
       THEN UNCHANGED <<run, obs, started, task>>
       ELSE /\ task[r].state # "running"
            /\ Start(r, NormalizedMessage(WebhookCompany, from_number, "whatsapp", body))
            /\ task' = [task EXCEPT ![r] = AddTask(from_number, to_number)]
    /\ webhook' = [from_number |-> from_number, to_number |-> to_number,
                   body |-> body, status |-> "ok",
                   message_id |-> message_sid, scheduled |-> HasBody(body)]
    /\ UNCHANGED <<now, dbVars, ragVars, resolved, generated, outbox, saving,
                   fetched, callVars>>

\* handlers that catch nothing
CaughtNever(point) == FALSE

\* the calls whose exception an `except Exception` of the task handles:
\* process_message is called inside the try of process_and_respond_whatsapp
\* (whatsapp.py:93-107), the Twilio client inside the try of
\* send_whatsapp_message (121-132)
Caught(point) == point \in {"process_message", "twilio"}

\* the event the handler of `point` logs
ErrorEvent(point) ==
    IF point = "twilio" THEN "twilio_send_error" ELSE "whatsapp_process_error"

\* send_whatsapp_message(from_number, to_number, message): the message
\* handed to client.messages.create
TwilioMessage(from_number, to_number, message) ==
    [from_ |-> <<"whatsapp:", from_number>>, to |-> <<"whatsapp:", to_number>>,
     body |-> message]

TwilioOutcomes == {"ok", "unconfigured", "error"}

\* the rest of process_and_respond_whatsapp in slot r, after process_message
\* has ended: send_whatsapp_message(to_number, from_number, response.message)
\* and the log line. `twilio` is what the Twilio side does: "unconfigured"
\* (no account sid in the settings: a warning, nothing sent), "ok", or
\* "error" (the client raises).
Respond(r, twilio) ==
    LET t == task[r]
        point == IF run[r].pc = "raised" THEN "process_message"
                 ELSE IF twilio = "error" THEN "twilio" ELSE "none"
        sent == run[r].pc # "raised"
    IN /\ t.state = "running"
       /\ run[r].pc \in {"done", "failed", "raised"}
       /\ outbox' = IF sent /\ twilio = "ok"
                    THEN Append(outbox, TwilioMessage(t.to_number, t.from_number,
                                                      run[r].result[1].message))
                    ELSE outbox
       /\ task' = [task EXCEPT ![r] =
                    IF point # "none" /\ ~Caught(point)
                    THEN [t EXCEPT !.state = "raised"]
                    ELSE [t EXCEPT
                            !.state = "ended",
                            !.log = (IF twilio = "unconfigured" /\ sent
                                     THEN <<"twilio_not_configured">> ELSE << >>)
                                    \o (IF point # "none"
                                        THEN <<ErrorEvent(point)>> ELSE << >>)
                                    \o (IF sent
                                        THEN <<"whatsapp_response_sent">> ELSE << >>)]]
       /\ UNCHANGED <<now, dbVars, run, obs, started, ragVars, resolved, generated,
                      webhook, saving, fetched, callVars>>

----------------------------------------------------------------------------
(* Knowledge base calls (main.py: /knowledge/add, /knowledge/search) *)

\* repeat, replaced and before are observations of an add_document call:
\* whether the content was indexed under the tenant before, the points the
\* upsert replaced, and the size of the tenant's collection before the call
NoRagCall ==
    [op |-> "none", company_id |-> "", text |-> "", metadata |-> << >>,
     failure |-> "none", raised |-> FALSE, doc_id |-> 0, results |-> << >>,
     repeat |-> FALSE, replaced |-> {}, before |-> 0]

\* add_document(company_id, content, metadata). `failure` names the call
\* that raises: "collections" (ensure_collection_exists), "embedding"
\* (create_embedding, after the collection exists), "upsert", or "none".
AddDocument(company_id, content, metadata, failure) ==
    LET collection_name == GetCollectionName(company_id)
        doc_id == GenerateNumericId(content)
    IN /\ Cardinality(points) < MaxDocs
       /\ collections' = IF failure = "collections" THEN collections
                         ELSE collections \cup {collection_name}
       /\ points' = IF failure = "none"
                    THEN Upsert(collection_name, doc_id,
                                Payload(company_id, content, metadata))
                    ELSE points
       /\ indexed' = IF failure = "none"
                     THEN indexed \cup {<<company_id, content>>} ELSE indexed
       /\ rag' = [op |-> "add", company_id |-> company_id, text |-> content,
                  metadata |-> metadata,
                  failure |-> failure,
                  raised |-> failure # "none",
                  doc_id |-> IF failure = "none" THEN doc_id ELSE 0,
                  results |-> << >>,
                  repeat |-> <<company_id, content>> \in indexed,
                  replaced |-> { p \in CollectionPoints(collection_name) : p.id = doc_id },
                  before |-> Cardinality(CollectionPoints(collection_name))]
       /\ returned' = IF failure = "none"
                      THEN returned \cup {<<company_id, content, doc_id>>} ELSE returned
       /\ UNCHANGED <<now, dbVars, run, obs, started, resolved, generated, ioVars>>

\* search_documents(company_id, query, limit)
SearchDocumentsCall(company_id, query, limit, failure) ==
    /\ \E results \in SearchDocuments(company_id, query, limit, failure) :
          rag' = [NoRagCall EXCEPT !.op = "search", !.company_id = company_id,
                                   !.text = query, !.failure = failure,
                                   !.raised = SearchRaises(failure),
                                   !.results = IF SearchRaises(failure)
                                               THEN << >> ELSE results]
    /\ UNCHANGED <<now, dbVars, run, obs, started, collections, points, indexed,
                   returned, resolved, generated, ioVars>>

----------------------------------------------------------------------------
(* Specifications *)

Init ==
    /\ now = 0
    /\ users = << >>
    /\ conversations = << >>
    /\ messages = << >>
    /\ run = [r \in Runs |-> IdleRun]
    /\ obs = [r \in Runs |-> IdleObs]
    /\ started = 0
    /\ collections = {}
    /\ points = {}
    /\ indexed = {}
    /\ rag = NoRagCall
    /\ returned = {}
    /\ resolved = {}
    /\ generated = {}
    /\ webhook = NoWebhookCall
    /\ task = [r \in Runs |-> NoTask]
    /\ outbox = << >>
    /\ saving = [r \in Runs |-> NoSave]
    /\ fetched = NoHistoryCall
    /\ updated = NoLeadCall
    /\ detected = NoDetectCall

\* One run of process_message at a time; the storage and the language model
\* may fail at every call
Inbound ==
    { NormalizedMessage("t1", "u1", "whatsapp", "hola"),
      NormalizedMessage("t1", "u1", "whatsapp", "una CITA"),
      NormalizedMessage("t2", "u1", "whatsapp", "hola"),
      NormalizedMessage("t1", "u1", "web", "hola") }

Replies == {"ok"}

Sequential == \A q \in Runs : Finished(q)

Next ==
    \/ \E m \in Inbound : Sequential /\ started < MaxMessages /\ Receive(1, m)
    \/ \E ok \in BOOLEAN : UserSelect(1, ok)
    \/ \E ok \in BOOLEAN : UserCommit(1, ok)
    \/ \E ok \in BOOLEAN : ConversationSelect(1, ok)
    \/ \E ok \in BOOLEAN : ConversationCommit(1, ok)
    \/ \E ok \in BOOLEAN : PersistInbound(1, ok)
    \/ \E ok \in BOOLEAN : FetchHistory(1, ok)
    \/ \E o \in GenerateOutcomes, a \in Replies : Generate(1, o, a, "none")
    \/ \E ok \in BOOLEAN : PersistOutbound(1, ok)
    \/ \E ok \in BOOLEAN : UpdateLead(1, ok)
    \/ Return(1)

Spec == Init /\ [][Next]_vars

\* One run at a time with the clock: time passes between two runs, while a
\* run waits for the language model and before it saves the reply (the clock
\* is read in whole minutes)
InboundTime ==
    { NormalizedMessage("t1", "u1", "whatsapp", "hola"),
      NormalizedMessage("t1", "u1", "web", "hola") }

Instants == {29, 30, 31}

Quiet ==
    \A q \in Runs : Finished(q) \/ run[q].pc \in {"history_fetched", "generated"}

NextTime ==
    \/ \E m \in InboundTime : Sequential /\ started < MaxMessages /\ Receive(1, m)
    \/ UserSelect(1, TRUE)
    \/ UserCommit(1, TRUE)
    \/ ConversationSelect(1, TRUE)
    \/ ConversationCommit(1, TRUE)
    \/ PersistInbound(1, TRUE)
    \/ FetchHistory(1, TRUE)
    \/ \E a \in Replies : Generate(1, "ok", a, "none")
    \/ PersistOutbound(1, TRUE)
    \/ UpdateLead(1, TRUE)
    \/ Return(1)
    \/ \E t \in Instants : Quiet /\ Tick(t)

SpecTime == Init /\ [][NextTime]_vars

\* One external id writing over the two channels whose users are looked up
\* by phone (database_service.py:35-38), one run at a time, storage working
InboundChannels ==
    { NormalizedMessage("t1", "u1", "voice", "hola"),
      NormalizedMessage("t1", "u1", "web", "hola") }

NextChannels ==
    \/ \E m \in InboundChannels :
          started < MaxMessages /\ Sequential /\ Receive(1, m)
    \/ UserSelect(1, TRUE)
    \/ UserCommit(1, TRUE)
    \/ ConversationSelect(1, TRUE)
    \/ ConversationCommit(1, TRUE)
    \/ PersistInbound(1, TRUE)
    \/ FetchHistory(1, TRUE)
    \/ \E a \in Replies : Generate(1, "ok", a, "none")
    \/ PersistOutbound(1, TRUE)
    \/ UpdateLead(1, TRUE)
    \/ Return(1)

SpecChannels == Init /\ [][NextChannels]_vars

\* One run at a time in which the language model is not bound to answer.
\* The steps of the program are taken whenever they can be (the event loop
\* resumes a coroutine whose await has returned); the return of
\* client.chat.completions.create is the language model's step, and
\* ai_service.py sets no timeout on it and does not wrap it in a wait.
InboundHang ==
    { NormalizedMessage("t1", "u1", "whatsapp", "hola"),
      NormalizedMessage("t1", "u1", "whatsapp", "una CITA") }

ProgramStep ==
    \/ UserSelect(1, TRUE)
    \/ UserCommit(1, TRUE)
    \/ ConversationSelect(1, TRUE)
    \/ ConversationCommit(1, TRUE)
    \/ PersistInbound(1, TRUE)
    \/ FetchHistory(1, TRUE)
    \/ PersistOutbound(1, TRUE)
    \/ UpdateLead(1, TRUE)
    \/ Return(1)

LanguageModelReturns ==
    \E o \in GenerateOutcomes, a \in Replies : Generate(1, o, a, "none")

NextHang ==
    \/ \E m \in InboundHang : Sequential /\ started < MaxGenerations /\ Receive(1, m)
    \/ ProgramStep
    \/ LanguageModelReturns

SpecHang == Init /\ [][NextHang]_vars /\ WF_vars(ProgramStep)

\* Two users writing in turn, and get_conversation_history called between
\* two runs for any conversation and several limits
InboundHistory ==
    { NormalizedMessage("t1", "u1", "whatsapp", "hola"),
      NormalizedMessage("t1", "u2", "whatsapp", "una CITA") }

HistoryLimits == {1, 2, 3, HistoryLimit}

NextHistory ==
    \/ \E m \in InboundHistory : Sequential /\ started < MaxTurns /\ Receive(1, m)
    \/ UserSelect(1, TRUE)
    \/ UserCommit(1, TRUE)
    \/ ConversationSelect(1, TRUE)
    \/ ConversationCommit(1, TRUE)
    \/ PersistInbound(1, TRUE)
    \/ FetchHistory(1, TRUE)
    \/ \E a \in Replies : Generate(1, "ok", a, "none")
    \/ PersistOutbound(1, TRUE)
    \/ UpdateLead(1, TRUE)
    \/ Return(1)
    \/ \E c \in 1..Len(conversations), l \in HistoryLimits :
          Sequential /\ GetConversationHistoryCall(c, l)

SpecHistory == Init /\ [][NextHistory]_vars

\* Two interleaved runs at a time for one identity, in which a save of a
\* message may fail
MaxAppends == 2

InboundAppend == { NormalizedMessage("t1", "u1", "whatsapp", "hola") }

NextAppend ==
    \E r \in {1, 2} :
        \/ \E m \in InboundAppend : started < MaxAppends /\ Receive(r, m)
        \/ UserSelect(r, TRUE)
        \/ UserCommit(r, TRUE)
        \/ ConversationSelect(r, TRUE)
        \/ ConversationCommit(r, TRUE)
        \/ \E ok \in BOOLEAN : PersistInbound(r, ok)
        \/ FetchHistory(r, TRUE)
        \/ \E a \in Replies : Generate(r, "ok", a, "none")
        \/ \E ok \in BOOLEAN : PersistOutbound(r, ok)
        \/ UpdateLead(r, TRUE)
        \/ Return(r)

SpecAppend == Init /\ [][NextAppend]_vars

\* Two runs for one identity, followed up to the end of their first
\* save_message, every await of which lets the other run and the clock go on
InstantsSave == {1, 2}

NextSave ==
    \/ \E r \in {1, 2} :
          \/ \E m \in InboundAppend : started < MaxAppends /\ Receive(r, m)
          \/ UserSelect(r, TRUE)
          \/ UserCommit(r, TRUE)
          \/ ConversationSelect(r, TRUE)
          \/ ConversationCommit(r, TRUE)
          \/ SaveAdd(r)
          \/ SaveStamp(r)
          \/ SaveCommit(r)
    \/ \E t \in InstantsSave : Tick(t)

SpecSave == Init /\ [][NextSave]_vars

\* One identity with a fresh active conversation: the first run goes alone
\* and creates the user and the conversation, the later runs interleave
InboundShared ==
    { NormalizedMessage("t1", "u1", "whatsapp", "hola"),
      NormalizedMessage("t1", "u1", "whatsapp", "una CITA") }

NextShared ==
    \E r \in {1, 2} :
        \/ \E m \in InboundShared :
              /\ started < MaxAppends + 1
              /\ started = 0 => r = 1
              /\ started = 1 => Sequential
              /\ Receive(r, m)
        \/ UserSelect(r, TRUE)
        \/ UserCommit(r, TRUE)
        \/ ConversationSelect(r, TRUE)
        \/ ConversationCommit(r, TRUE)
        \/ PersistInbound(r, TRUE)
        \/ FetchHistory(r, TRUE)
        \/ \E a \in Replies : Generate(r, "ok", a, "none")
        \/ PersistOutbound(r, TRUE)
        \/ UpdateLead(r, TRUE)
        \/ Return(r)

SpecShared == Init /\ [][NextShared]_vars

\* Two users created by runs of the pipeline, the clock, and
\* update_user_lead_status called between two runs for any user id, one that
\* no row has included, with statuses inside and outside the lead stages
InboundLead ==
    { NormalizedMessage("t1", "u1", "whatsapp", "hola"),
      NormalizedMessage("t1", "u2", "whatsapp", "una CITA") }

LeadStatuses == {"nuevo", "caliente", "vip"}
InstantsLead == {1, 2}
MaxUpdates == 2

NextLead ==
    \/ \E m \in InboundLead : Sequential /\ started < MaxGenerations /\ Receive(1, m)
    \/ UserSelect(1, TRUE)
    \/ UserCommit(1, TRUE)
    \/ ConversationSelect(1, TRUE)
    \/ ConversationCommit(1, TRUE)
    \/ PersistInbound(1, TRUE)
    \/ FetchHistory(1, TRUE)
    \/ \E a \in Replies : Generate(1, "ok", a, "none")
    \/ PersistOutbound(1, TRUE)
    \/ UpdateLead(1, TRUE)
    \/ Return(1)
    \/ \E t \in InstantsLead : Sequential /\ Tick(t)
    \/ \E u \in 1..(Len(users) + 1), s \in LeadStatuses :
          Sequential /\ updated.n < MaxUpdates /\ UpdateUserLeadStatusCall(u, s)

SpecLead == Init /\ [][NextLead]_vars

\* One user who asks for a human or just greets, one run at a time, with the
\* clock passing between two runs and while a run waits
InboundEscalate ==
    { NormalizedMessage("t1", "u1", "whatsapp", "un humano"),
      NormalizedMessage("t1", "u1", "whatsapp", "hola") }

NextEscalate ==
    \/ \E m \in InboundEscalate :
          Sequential /\ started < MaxGenerations /\ Receive(1, m)
    \/ UserSelect(1, TRUE)
    \/ UserCommit(1, TRUE)
    \/ ConversationSelect(1, TRUE)
    \/ ConversationCommit(1, TRUE)
    \/ PersistInbound(1, TRUE)
    \/ FetchHistory(1, TRUE)
    \/ \E a \in Replies : Generate(1, "ok", a, "none")
    \/ PersistOutbound(1, TRUE)
    \/ UpdateLead(1, TRUE)
    \/ Return(1)
    \/ \E t \in Instants : Quiet /\ Tick(t)

SpecEscalate == Init /\ [][NextEscalate]_vars

\* The escalation report over transcripts of two tenants, with messages that
\* name no keyword, one, and two: one run at a time, the storage working
InboundPatterns ==
    { NormalizedMessage("t1", "u1", "whatsapp", "un asesor humano"),
      NormalizedMessage("t1", "u1", "whatsapp", "hola"),
      NormalizedMessage("t2", "u2", "whatsapp", "un humano") }

TenantsPatterns == {"t1", "t2", "t3"}

NextPatterns ==
    \/ \E m \in InboundPatterns :
          Sequential /\ started < MaxGenerations /\ Receive(1, m)
    \/ UserSelect(1, TRUE)
    \/ UserCommit(1, TRUE)
    \/ ConversationSelect(1, TRUE)
    \/ ConversationCommit(1, TRUE)
    \/ PersistInbound(1, TRUE)
    \/ FetchHistory(1, TRUE)
    \/ \E o \in GenerateOutcomes : Generate(1, o, "ok", "none")
    \/ PersistOutbound(1, TRUE)
    \/ UpdateLead(1, TRUE)
    \/ Return(1)
    \/ \E c \in TenantsPatterns : DetectEscalationPatternsCall(c)

SpecPatterns == Init /\ [][NextPatterns]_vars

\* Concurrent runs of process_message for one identity, the storage working
InboundConc ==
    { NormalizedMessage("t1", "u1", "whatsapp", "hola"),
      NormalizedMessage("t1", "u1", "voice", "hola") }

NextConc ==
    \E r \in Runs :
        \/ \E m \in InboundConc : started < MaxMessages /\ Receive(r, m)
        \/ UserSelect(r, TRUE)
        \/ UserCommit(r, TRUE)
        \/ ConversationSelect(r, TRUE)
        \/ ConversationCommit(r, TRUE)
        \/ PersistInbound(r, TRUE)
        \/ FetchHistory(r, TRUE)
        \/ \E a \in Replies : Generate(r, "ok", a, "none")
        \/ PersistOutbound(r, TRUE)
        \/ UpdateLead(r, TRUE)
        \/ Return(r)

SpecConc == Init /\ [][NextConc]_vars

\* One long conversation: one run at a time for one identity, the reply
\* sometimes not persisted, the language model answering with the user's words
InboundLong ==
    { NormalizedMessage("t1", "u1", "whatsapp", "hola"),
      NormalizedMessage("t1", "u1", "whatsapp", "una CITA") }

RepliesLong == {"hola"}

NextLong ==
    \/ \E m \in InboundLong : Sequential /\ started < MaxTurns /\ Receive(1, m)
    \/ UserSelect(1, TRUE)
    \/ UserCommit(1, TRUE)
    \/ ConversationSelect(1, TRUE)
    \/ ConversationCommit(1, TRUE)
    \/ PersistInbound(1, TRUE)
    \/ FetchHistory(1, TRUE)
    \/ \E a \in RepliesLong : Generate(1, "ok", a, "none")
    \/ \E ok \in BOOLEAN : PersistOutbound(1, ok)
    \/ UpdateLead(1, TRUE)
    \/ Return(1)

SpecLong == Init /\ [][NextLong]_vars

\* Generation over texts with and without keywords, in either case, and
\* replies with and without keywords: one run at a time, the storage working
InboundGen ==
    { NormalizedMessage("t1", "u1", "whatsapp", t) :
        t \in {"hola", "Hola", "una CITA", "un humano", "felicitaciones",
               "cita con un ASESOR"} }

RepliesGen ==
    {"ok", "agenda tu cita con un asesor",
     "Con gusto. ¿Hay algo más en que pueda ayudarte?"}

NextGen ==
    \/ \E m \in InboundGen : Sequential /\ started < MaxGenerations /\ Receive(1, m)
    \/ UserSelect(1, TRUE)
    \/ UserCommit(1, TRUE)
    \/ ConversationSelect(1, TRUE)
    \/ ConversationCommit(1, TRUE)
    \/ PersistInbound(1, TRUE)
    \/ FetchHistory(1, TRUE)
    \/ \E o \in GenerateOutcomes, a \in RepliesGen : Generate(1, o, a, "none")
    \/ PersistOutbound(1, TRUE)
    \/ UpdateLead(1, TRUE)
    \/ Return(1)

SpecGen == Init /\ [][NextGen]_vars

\* Messages arriving at the WhatsApp webhook, with and without a body; one
\* with a body arrives when the earlier one has been processed, one without at
\* any moment. The storage and the language model work.
Senders == {"+50370000001", "+50370000002"}
Receivers == {"+14155238886"}
Bodies == {"", "hola"}
MessageSids == {"SM1"}
MaxWebhooks == 2

\* a step of the background task: the pipeline, in which the first save and
\* the generation may fail, then the reply
TaskStep ==
    \/ UserSelect(1, TRUE)
    \/ UserCommit(1, TRUE)
    \/ ConversationSelect(1, TRUE)
    \/ ConversationCommit(1, TRUE)
    \/ \E ok \in BOOLEAN : PersistInbound(1, ok)
    \/ FetchHistory(1, TRUE)
    \/ \E o \in GenerateOutcomes, a \in Replies : Generate(1, o, a, "none")
    \/ PersistOutbound(1, TRUE)
    \/ UpdateLead(1, TRUE)
    \/ Return(1)
    \/ \E tw \in TwilioOutcomes : Respond(1, tw)

NextWebhook ==
    \/ \E f \in Senders, t \in Receivers, b \in Bodies, sid \in MessageSids :
          started < MaxWebhooks /\ WhatsappWebhook(1, f, t, b, sid)
    \/ TaskStep

SpecWebhook == Init /\ [][NextWebhook]_vars

\* the background task is run to its end: every await of it returns
SpecWebhookFair == SpecWebhook /\ WF_vars(TaskStep)

\* Calls of the knowledge base alone
RagCompanies == {"t1", "t2"}
DocContents == {"X", "Y"}
Metadatas == { << >>, [title |-> "Documento"], [title |-> "Precios"] }
Queries == {"hola"}
SearchLimits == {1, ContextLimit}
AddFailures == {"none", "collections", "embedding", "upsert"}
SearchFailures == {"none", "collections", "embedding", "search"}

NextRag ==
    \/ \E c \in RagCompanies, x \in DocContents, md \in Metadatas, f \in AddFailures :
          AddDocument(c, x, md, f)
    \/ \E c \in RagCompanies, q \in Queries, n \in SearchLimits, f \in SearchFailures :
          SearchDocumentsCall(c, q, n, f)

SpecRag == Init /\ [][NextRag]_vars

\* The pipeline over a knowledge base that is being filled: one run at a
\* time, the storage working, the retrieval calls failing at any point
InboundKb ==
    { NormalizedMessage("t1", "u1", "whatsapp", "hola"),
      NormalizedMessage("t2", "u1", "whatsapp", "hola") }

NextKb ==
    \/ \E m \in InboundKb : Sequential /\ started < MaxMessages /\ Receive(1, m)
    \/ UserSelect(1, TRUE)
    \/ UserCommit(1, TRUE)
    \/ ConversationSelect(1, TRUE)
    \/ ConversationCommit(1, TRUE)
    \/ PersistInbound(1, TRUE)
    \/ FetchHistory(1, TRUE)
    \/ \E o \in GenerateOutcomes, a \in Replies, f \in SearchFailures :
          Generate(1, o, a, f)
    \/ PersistOutbound(1, TRUE)
    \/ UpdateLead(1, TRUE)
    \/ Return(1)
    \/ \E c \in RagCompanies :
          Sequential /\ AddDocument(c, "X", [title |-> "Documento"], "none")
    \/ \E c \in RagCompanies, q \in Queries, f \in SearchFailures :
          Sequential /\ SearchDocumentsCall(c, q, ContextLimit, f)

SpecKb == Init /\ [][NextKb]_vars

----------------------------------------------------------------------------
(* Properties *)

IsPrefix(a, b) == Len(a) <= Len(b) /\ SubSeq(b, 1, Len(a)) = a

Reached(r, state) == \E k \in 1..Len(obs[r].trace) : obs[r].trace[k] = state

SameIdentity(a, b) ==
    a.company_id = b.company_id /\ a.channel = b.channel /\ a.user_id = b.user_id

\* C1: process_message never raises to its caller. A step that fails
\* (storage failure or an exception of the step itself) puts the run in
\* failed at once, and a failed run has returned the orchestrator's fixed
\* fallback with action None, lead_status None and confidence 0.0; a run that
\* ended has returned an AgentResponse.
C1_NeverRaises ==
    \A r \in Runs :
        /\ run[r].pc # "raised"
        /\ obs[r].failed_step # None => run[r].pc = "failed"
        /\ run[r].pc = "failed" =>
              /\ obs[r].failed_step # None
              /\ run[r].result # Nothing
              /\ run[r].result[1].message =
                    "Disculpa, tuve un problema. ¿Podrías intentar de nuevo?"
              /\ run[r].result[1].action = None
              /\ run[r].result[1].lead_status = None
              /\ run[r].result[1].confidence = 0
        /\ run[r].pc = "done" => run[r].result # Nothing

C1_Witness ==
    \E r \in Runs :
        /\ run[r].pc = "failed"
        /\ obs[r].failed_step = "update_user_lead_status"
        /\ run[r].result = Some(OrchestratorFallback)

\* C5: with no concurrent run, when the inbound message M has been appended
\* to a conversation whose prior transcript is shorter than the history limit,
\* the history handed to generation is exactly that prior transcript, in
\* order, without M and with no prior entry removed, also when a prior entry
\* has the content of M.
C5_HistoryIsPriorTranscript ==
    \A r \in Runs :
        (Reached(r, "history_fetched") /\ Len(obs[r].prior) < HistoryLimit) =>
            /\ RoleContent(run[r].history) = obs[r].prior
            /\ obs[r].request # Nothing => obs[r].request[1].history = obs[r].prior

C5_Witness ==
    \E r \in Runs :
        /\ obs[r].request # Nothing
        /\ Len(obs[r].prior) = HistoryLimit - 1
        /\ \E k \in 1..Len(obs[r].prior) :
              obs[r].prior[k].content = run[r].message.message
        /\ obs[r].request[1].history = obs[r].prior

\* C7: (the claim) on every channel the first message of an identity creates
\* a User with lead status "nuevo" and last-interaction now, and every later
\* message of that identity resolves to that same User.
C7_OneUserPerIdentity ==
    /\ \A a, b \in resolved : SameIdentity(a, b) => a.user = b.user
    /\ \A r \in Runs :
          (run[r].pc = "user_resolved" /\ obs[r].created_user) =>
              /\ users[run[r].user].lead_status = "nuevo"
              /\ users[run[r].user].last_interaction = now

\* C8: a failure of the language-model call (provider error or any other
\* exception) gives a fixed non-empty fallback with action None, lead_status
\* None and confidence 0.0, and process_message then returns, without
\* raising, a response with confidence 0.0 and a non-empty fixed apology.
FixedApologies ==
    {ApiErrorFallback.message, ErrorFallback.message, OrchestratorFallback.message}

C8_GenerationFailureContained ==
    \A r \in Runs :
        (obs[r].request # Nothing /\ obs[r].request[1].outcome # "ok") =>
            /\ run[r].response # Nothing
            /\ run[r].response[1].message \in
                  {ApiErrorFallback.message, ErrorFallback.message}
            /\ run[r].response[1].message # ""
            /\ run[r].response[1].action = None
            /\ run[r].response[1].lead_status = None
            /\ run[r].response[1].confidence = 0
            /\ run[r].pc # "raised"
            /\ run[r].pc \in {"done", "failed"} =>
                  /\ run[r].result # Nothing
                  /\ run[r].result[1].confidence = 0
                  /\ run[r].result[1].message # ""
                  /\ run[r].result[1].message \in FixedApologies

C8_Witness ==
    \E r \in Runs :
        /\ run[r].pc = "done"
        /\ obs[r].request[1].outcome = "error"
        /\ run[r].result[1].confidence = 0

\* C9: the states of a run, in the order the claim gives them
ClaimedOrder ==
    <<"received", "user_resolved", "conversation_resolved", "inbound_persisted",
      "history_fetched", "generated", "outbound_persisted", "lead_updated", "done">>

OrderWithoutLeadUpdate ==
    <<"received", "user_resolved", "conversation_resolved", "inbound_persisted",
      "history_fetched", "generated", "outbound_persisted", "done">>

LeadUpdateSkipped(r) ==
    run[r].response # Nothing /\ ~Truthy(run[r].response[1].lead_status)

InboundCommitted(r) ==
    /\ obs[r].inbound \in 1..Len(messages)
    /\ messages[obs[r].inbound].conversation_id = run[r].conversation
    /\ messages[obs[r].inbound].role = "user"
    /\ messages[obs[r].inbound].content = run[r].message.message

OutboundCommitted(r) ==
    /\ obs[r].outbound \in 1..Len(messages)
    /\ messages[obs[r].outbound].conversation_id = run[r].conversation
    /\ messages[obs[r].outbound].role = "assistant"
    /\ messages[obs[r].outbound].content = run[r].response[1].message

\* C9 (the claim): every run that reaches done went through all nine states
\* in order, none skipped
C9_EveryStepOnTheWayToDone ==
    \A r \in Runs : run[r].pc = "done" => obs[r].trace = ClaimedOrder

\* C9 (amended): a run goes through the states only in the order received,
\* user_resolved, conversation_resolved, inbound_persisted, history_fetched,
\* generated, outbound_persisted, lead_updated, done, none twice; the inbound
\* append is committed before the history fetch and the outbound append before
\* the lead-status update; no state is skipped on the way to done except
\* lead_updated, which is skipped exactly when the response has no lead status.
C9_StepOrder ==
    \A r \in Runs :
        /\ \/ IsPrefix(obs[r].trace, ClaimedOrder)
           \/ LeadUpdateSkipped(r) /\ IsPrefix(obs[r].trace, OrderWithoutLeadUpdate)
        /\ run[r].pc = "done" =>
              obs[r].trace = IF LeadUpdateSkipped(r)
                             THEN OrderWithoutLeadUpdate ELSE ClaimedOrder
        /\ Reached(r, "inbound_persisted") => InboundCommitted(r)
        /\ Reached(r, "outbound_persisted") => OutboundCommitted(r)
        /\ Reached(r, "history_fetched") => Reached(r, "inbound_persisted")
        /\ Reached(r, "lead_updated") => Reached(r, "outbound_persisted")

C9_Witness ==
    \E r \in Runs :
        /\ run[r].pc = "done"
        /\ LeadUpdateSkipped(r)
        /\ obs[r].trace = OrderWithoutLeadUpdate
        /\ OutboundCommitted(r)

\* C2 (the claim): get_or_create_conversation returns an existing
\* conversation exactly when one of that user and channel is active with its
\* last activity inside the window, and in every other case creates and
\* returns a new active conversation; it returns no conversation of another
\* user or channel. (The storage works here, so the call has no other outcome.)
C2_ReuseIffFreshActive ==
    \A r \in Runs :
        /\ obs[r].failed_step # "get_or_create_conversation"
        /\ Reached(r, "conversation_resolved") =>
              /\ obs[r].reused <=> obs[r].matching # {}
              /\ obs[r].reused => run[r].conversation \in obs[r].matching
              /\ conversations[run[r].conversation].user_id = run[r].user
              /\ conversations[run[r].conversation].channel = run[r].message.channel
              /\ conversations[run[r].conversation].status = "active"

\* C3: two messages of one identity processed one after the other
Consecutive(r) ==
    /\ obs[r].prev # Nothing
    /\ SameIdentity(obs[r].prev[1].message, run[r].message)
    /\ Reached(r, "conversation_resolved")

SameConversation(r) == run[r].conversation = obs[r].prev[1].conversation

\* C3 (the claim): the two messages land in the same conversation exactly
\* when their arrival times are less than the window apart
C3_SameConversationIffArrivalsWithinWindow ==
    \A r \in Runs :
        Consecutive(r) =>
            (SameConversation(r) <=>
                obs[r].arrival - obs[r].prev[1].arrival < TimeoutMinutes)

\* C3 (amended): the two messages land in the same conversation exactly when
\* the second resolves to the same User and its conversation lookup happens
\* at most the window (boundary included) after the conversation's last
\* activity, which is the commit of the first run's last message
C3_SameConversationIffLastActivityWithinWindow ==
    \A r \in Runs :
        Consecutive(r) =>
            (SameConversation(r) <=>
                /\ run[r].user = obs[r].prev[1].user
                /\ obs[r].looked_up - obs[r].prev[1].last_activity <= TimeoutMinutes)

C3_Witness ==
    \E r \in Runs :
        /\ Consecutive(r)
        /\ SameConversation(r)
        /\ obs[r].arrival - obs[r].prev[1].arrival > TimeoutMinutes

\* C4 (the claim): the history passed to generate_ai_response never contains
\* the inbound message this run has persisted
C4_HistoryExcludesOwnInbound ==
    \A r \in Runs :
        obs[r].request # Nothing => obs[r].inbound \notin obs[r].request[1].mids

\* C6 (the claim): concurrent get_or_create_user calls of one identity all
\* return the same User and none raises
C6_ConcurrentUserCreationIdempotent ==
    /\ \A r \in Runs : obs[r].failed_step # "get_or_create_user"
    /\ \A a, b \in resolved : SameIdentity(a, b) => a.user = b.user

\* C10: tenant ids the namespace key is compared on
TenantIds == {"t1", "t2", "t1_docs", "docs", "1", "11", ""}

IndexedUnder(company_id) == { x \in DocContents : <<company_id, x>> \in indexed }

\* C10: after any sequence of add_document and search_documents calls a
\* search under a tenant returns only content that was indexed under that
\* tenant, and the empty list when nothing was indexed under it (whatever the
\* other tenants hold); the collection name is an injective function of the
\* tenant id.
C10_TenantIsolation ==
    /\ rag.op = "search" =>
          /\ \A i \in 1..Len(rag.results) :
                rag.results[i].content \in IndexedUnder(rag.company_id)
          /\ IndexedUnder(rag.company_id) = {} => rag.results = << >>
    /\ \A a, b \in TenantIds : GetCollectionName(a) = GetCollectionName(b) => a = b

C10_Witness ==
    /\ rag.op = "search"
    /\ rag.company_id = "t2"
    /\ rag.results = << >>
    /\ IndexedUnder("t2") = {}
    /\ "X" \in IndexedUnder("t1")
    /\ \E p \in points : p.payload["content"] = "X"

\* C11: indexing is idempotent. Every add_document of one content under one
\* tenant that returns gives the same document id, and after a repeated call
\* the tenant's collection has not grown and holds exactly one entry with
\* that content: the one with the returned id, carrying the metadata of
\* the repeated call.
SameContentPoints(company_id, content) ==
    { p \in CollectionPoints(GetCollectionName(company_id)) :
        "content" \in DOMAIN p.payload /\ p.payload["content"] = content }

C11_IndexingIdempotent ==
    /\ \A a, b \in returned : (a[1] = b[1] /\ a[2] = b[2]) => a[3] = b[3]
    /\ (rag.op = "add" /\ ~rag.raised) =>
          SameContentPoints(rag.company_id, rag.text) =
              {[collection |-> GetCollectionName(rag.company_id), id |-> rag.doc_id,
                payload |-> Payload(rag.company_id, rag.text, rag.metadata)]}
    /\ (rag.op = "add" /\ ~rag.raised /\ rag.repeat) =>
          /\ Cardinality(CollectionPoints(GetCollectionName(rag.company_id))) = rag.before
          /\ Cardinality(rag.replaced) = 1

C11_Witness ==
    /\ rag.op = "add"
    /\ ~rag.raised
    /\ rag.repeat
    /\ rag.metadata = [title |-> "Precios"]
    /\ \E p \in rag.replaced :
          "title" \in DOMAIN p.payload /\ p.payload["title"] = "Documento"
    /\ \E p \in SameContentPoints(rag.company_id, rag.text) :
          p.payload["title"] = "Precios"

\* C12: a failure anywhere in retrieval (collection lookup, embedding of the
\* query, vector search) becomes an empty result. search_documents returns
\* the empty list and does not raise; generate_ai_response then calls the
\* language model with no retrieved context, and the run does not fail
\* because of it: its response is what generation gives without the failure.
C12_RetrievalFailureIsEmptyResult ==
    /\ (rag.op = "search" /\ rag.failure # "none") =>
          ~rag.raised /\ rag.results = << >>
    /\ \A r \in Runs :
          (obs[r].request # Nothing /\ obs[r].request[1].retrieval # "none") =>
              /\ obs[r].request[1].context = << >>
              /\ run[r].response =
                    Some(GenerateAiResponse(run[r].message.message,
                                            obs[r].request[1].outcome, "ok"))
              /\ run[r].pc \notin {"failed", "raised"}
              /\ obs[r].failed_step = None

C12_Witness ==
    \E r \in Runs :
        /\ run[r].pc = "done"
        /\ obs[r].request[1].retrieval = "embedding"
        /\ obs[r].request[1].outcome = "ok"
        /\ CollectionPoints(GetCollectionName(run[r].message.company_id)) # {}
        /\ obs[r].request[1].context = << >>
        /\ run[r].result[1].message = "ok"
        /\ run[r].result[1].confidence = SuccessConfidence

\* C13: the core never invents a lead status. A User's lead status is the
\* creation value "nuevo" or a value generate_ai_response returned as
\* lead_status for a message of that user, and a run that ended with a
\* response without lead status (the generator's or the orchestrator's
\* fallback) has left its user's lead status as it found it.
C13_LeadStatusNeverInvented ==
    /\ \A i \in 1..Len(users) :
          \/ users[i].lead_status = "nuevo"
          \/ \E g \in generated :
                /\ g.user = i
                /\ g.lead_status # None
                /\ g.lead_status = users[i].lead_status
    /\ \A r \in Runs :
          (run[r].pc \in {"done", "failed"} /\ run[r].user # 0
                /\ run[r].result[1].lead_status = None) =>
              users[run[r].user].lead_status = obs[r].lead_before

C13_Witness ==
    \E r \in Runs :
        /\ run[r].pc = "done"
        /\ obs[r].request[1].outcome = "api_error"
        /\ run[r].result[1].lead_status = None
        /\ obs[r].lead_before = "caliente"
        /\ users[run[r].user].lead_status = "caliente"

\* C14: the stages of a lead in the order the claim gives them
LeadRank(status) ==
    CASE status = "nuevo" -> 0
      [] status = "interesado" -> 1
      [] status = "caliente" -> 2
      [] status = "convertido" -> 3
      [] OTHER -> 0

\* C14 (the claim): a User's lead status only moves forward in the order
\* nuevo, interesado, caliente, convertido; no processed message changes it to
\* an earlier stage.
C14_LeadStatusOnlyForward ==
    \A r \in Runs :
        Reached(r, "user_resolved") =>
            LeadRank(users[run[r].user].lead_status) >= LeadRank(obs[r].lead_before)

FirstMessageDone(r) ==
    /\ started = 1
    /\ run[r].pc = "done"
    /\ run[r].message.channel = "whatsapp"
    /\ obs[r].request[1].outcome = "ok"
    /\ obs[r].request[1].retrieval = "none"

\* C16: what the claim and the code agree on: one User created as "nuevo",
\* one active Conversation, the inbound message persisted with role user,
\* generation with empty history and empty retrieved context, the reply
\* persisted with role assistant before the lead status is set, a non-empty
\* message returned, and a final store of 1 user, 1 conversation and 2
\* messages in the order user, assistant
FirstMessageEffects(r) ==
    /\ obs[r].trace = ClaimedOrder
    /\ Len(users) = 1 /\ run[r].user = 1
    /\ obs[r].created_user /\ obs[r].lead_before = "nuevo"
    /\ Len(conversations) = 1 /\ run[r].conversation = 1
    /\ conversations[1].user_id = 1
    /\ conversations[1].status = "active"
    /\ obs[r].request[1].history = << >>
    /\ obs[r].request[1].context = << >>
    /\ Transcript(1) = <<[role |-> "user", content |-> run[r].message.message],
                         [role |-> "assistant", content |-> run[r].result[1].message]>>
    /\ Len(messages) = 2
    /\ run[r].result[1].message # ""

\* C16 (the claim): end to end, the first message of a new whatsapp user on
\* an empty store, all collaborators working, has the effects above and sets
\* the user's lead status to "interesado"
C16_FirstMessageSetsInterested ==
    \A r \in Runs :
        FirstMessageDone(r) =>
            FirstMessageEffects(r) /\ users[1].lead_status = "interesado"

\* C16 (amended): the same, the lead status being set to "interesado" when
\* the text has no scheduling keyword and to "caliente" when it has one
C16_FirstMessageEndToEnd ==
    \A r \in Runs :
        FirstMessageDone(r) =>
            /\ FirstMessageEffects(r)
            /\ users[1].lead_status \in {"interesado", "caliente"}
            /\ users[1].lead_status = "caliente" <=>
                  ContainsAny(run[r].message.message, SchedulingKeywords)

C16_Witness ==
    \E r \in Runs :
        /\ FirstMessageDone(r)
        /\ run[r].message = NormalizedMessage("t1", "u1", "whatsapp", "hola")
        /\ users[1].lead_status = "interesado"
        /\ run[r].result[1].message = "ok"
        /\ Len(messages) = 2

\* C17: two characters that are the same letter, whatever their case
SameLetter(a, b) ==
    \/ a = b
    \/ \E i \in 1..Len(Upper) : {a, b} = {Upper[i], LowerOf[i]}

\* C17: the text has `word` as a substring, case ignored
Mentions(text, word) ==
    \E i \in 1..(Len(Chars[text]) - Len(word) + 1) :
        \A j \in 1..Len(word) : SameLetter(Chars[text][i + j - 1], word[j])

\* C17: when generation succeeds, action is "escalate" exactly when the user
\* message contains, case ignored and as a substring, one of the escalation
\* keywords, and None otherwise; lead_status is "caliente" exactly when the
\* message contains one of the scheduling keywords, and "interesado"
\* otherwise; the reply text is the model's and plays no part in either.
C17_KeywordDerivation ==
    \A r \in Runs :
        (obs[r].request # Nothing /\ obs[r].request[1].outcome = "ok") =>
            LET text == obs[r].request[1].user_message
                response == run[r].response[1]
            IN /\ response.action \in {"escalate", None}
               /\ response.action = "escalate" <=>
                     \E w \in EscalationKeywords : Mentions(text, w)
               /\ response.lead_status \in {"caliente", "interesado"}
               /\ response.lead_status = "caliente" <=>
                     \E w \in SchedulingKeywords : Mentions(text, w)
               /\ response.message \in RepliesGen

C17_Witness ==
    \E r \in Runs :
        /\ obs[r].request # Nothing
        /\ obs[r].request[1].outcome = "ok"
        /\ obs[r].request[1].user_message = "cita con un ASESOR"
        /\ run[r].response[1].message = "ok"
        /\ run[r].response[1].action = "escalate"
        /\ run[r].response[1].lead_status = "caliente"

\* C18: an inbound message with an empty body never starts the pipeline. The
\* webhook call creates or updates no User and no Conversation, persists no
\* Message, enters no run of process_message and makes no generation call,
\* and it is acknowledged with status ok.
C18_EmptyBodyIsNoOp ==
    [][ (webhook' # webhook /\ webhook'.body = "") =>
            /\ UNCHANGED <<users, conversations, messages, run, started, generated>>
            /\ UNCHANGED <<collections, points, task, outbox>>
            /\ webhook'.status = "ok"
            /\ ~webhook'.scheduled ]_vars

C18_Witness ==
    /\ webhook.body = ""
    /\ webhook.from_number = "+50370000002"
    /\ webhook.status = "ok"
    /\ users = << >>
    /\ messages = << >>
    /\ started = 0
    /\ \A r \in Runs : run[r].pc = "idle"

\* C19: the rows a run has added to each table since it started
Added(r) ==
    [users |-> Len(users) - obs[r].base.users,
     conversations |-> Len(conversations) - obs[r].base.conversations,
     messages |-> Len(messages) - obs[r].base.messages]

UserCommitted(r) ==
    /\ run[r].user \in 1..Len(users)
    /\ Added(r).users = IF obs[r].created_user THEN 1 ELSE 0

ConversationCommitted(r) ==
    /\ run[r].conversation \in 1..Len(conversations)
    /\ conversations[run[r].conversation].user_id = run[r].user
    /\ Added(r).conversations = IF obs[r].reused THEN 0 ELSE 1

LeadUntouched(r) == users[run[r].user].lead_status = obs[r].lead_before

\* C19: a storage failure is fatal to the current message and fabricates
\* nothing. With one run at a time, the run whose step k failed has ended
\* with the fallback; no effect of k or of a later step exists (no row of a
\* later table, no generation call, no outbound message, no lead-status
\* update) and the effects of the steps before k are committed.
C19_FailureStopsTheRun ==
    \A r \in Runs :
        obs[r].failed_step # None =>
            LET step == obs[r].failed_step
            IN /\ run[r].pc = "failed"
               /\ step = "get_or_create_user" =>
                     /\ run[r].user = 0 /\ run[r].conversation = 0
                     /\ Added(r) = [users |-> 0, conversations |-> 0, messages |-> 0]
                     /\ obs[r].request = Nothing
               /\ step = "get_or_create_conversation" =>
                     /\ UserCommitted(r)
                     /\ run[r].conversation = 0
                     /\ Added(r).conversations = 0 /\ Added(r).messages = 0
                     /\ obs[r].request = Nothing
               /\ (step = "save_message" /\ obs[r].request = Nothing) =>
                     /\ UserCommitted(r) /\ ConversationCommitted(r)
                     /\ obs[r].inbound = 0 /\ Added(r).messages = 0
                     /\ LeadUntouched(r)
               /\ step = "get_conversation_history" =>
                     /\ UserCommitted(r) /\ ConversationCommitted(r)
                     /\ InboundCommitted(r) /\ Added(r).messages = 1
                     /\ obs[r].request = Nothing /\ obs[r].outbound = 0
                     /\ LeadUntouched(r)
               /\ (step = "save_message" /\ obs[r].request # Nothing) =>
                     /\ UserCommitted(r) /\ ConversationCommitted(r)
                     /\ InboundCommitted(r) /\ Added(r).messages = 1
                     /\ obs[r].outbound = 0
                     /\ LeadUntouched(r)
               /\ step = "update_user_lead_status" =>
                     /\ UserCommitted(r) /\ ConversationCommitted(r)
                     /\ InboundCommitted(r) /\ OutboundCommitted(r)
                     /\ Added(r).messages = 2
                     /\ LeadUntouched(r)

C19_Witness ==
    \E r \in Runs :
        /\ run[r].pc = "failed"
        /\ obs[r].failed_step = "get_conversation_history"
        /\ obs[r].base.messages = 2
        /\ obs[r].created_user
        /\ Added(r) = [users |-> 1, conversations |-> 1, messages |-> 1]
        /\ InboundCommitted(r)

\* C20: when update_user_lead_status fails after the outbound message was
\* persisted, the assistant message is still the last entry of the
\* transcript, as it was written (not rolled back, not removed), and the
\* user's lead status has the value it had before the run.
C20_LeadUpdateFailureKeepsReply ==
    \A r \in Runs :
        obs[r].failed_step = "update_user_lead_status" =>
            LET c == run[r].conversation
                t == Transcript(c)
            IN /\ obs[r].outbound = Len(messages)
               /\ messages[obs[r].outbound] =
                     [conversation_id |-> c, role |-> "assistant",
                      content |-> run[r].response[1].message,
                      response_time_ms |-> run[r].response_time_ms,
                      created_at |-> messages[obs[r].outbound].created_at]
               /\ Len(t) >= 2
               /\ t[Len(t)] = [role |-> "assistant", content |-> run[r].response[1].message]
               /\ t[Len(t) - 1] = [role |-> "user", content |-> run[r].message.message]
               /\ users[run[r].user].lead_status = obs[r].lead_before

C20_Witness ==
    \E r \in Runs :
        /\ run[r].pc = "failed"
        /\ obs[r].failed_step = "update_user_lead_status"
        /\ obs[r].lead_before = "caliente"
        /\ run[r].response[1].lead_status = "interesado"
        /\ users[run[r].user].lead_status = "caliente"
        /\ messages[obs[r].outbound].content = "ok"

\* C21: the tenant a conversation belongs to, through its User
TenantOfConversation(c) == users[conversations[c].user_id].company_id

\* C21: no cross-tenant reference is ever created. Every Message refers to
\* one existing Conversation, every Conversation to one existing User, every
\* User to one tenant; the User a run resolves, the conversation it appends
\* to and reads its history from, and every history entry it reads belong to
\* the tenant of the run's message.
C21_NoCrossTenantReference ==
    /\ \A i \in 1..Len(messages) : messages[i].conversation_id \in 1..Len(conversations)
    /\ \A c \in 1..Len(conversations) : conversations[c].user_id \in 1..Len(users)
    /\ \A u \in 1..Len(users) : users[u].company_id \in {"t1", "t2"}
    /\ \A r \in Runs :
          /\ run[r].user # 0 =>
                users[run[r].user].company_id = run[r].message.company_id
          /\ run[r].conversation # 0 =>
                /\ conversations[run[r].conversation].user_id = run[r].user
                /\ TenantOfConversation(run[r].conversation) = run[r].message.company_id
          /\ obs[r].inbound # 0 =>
                TenantOfConversation(messages[obs[r].inbound].conversation_id) =
                    run[r].message.company_id
          /\ obs[r].outbound # 0 =>
                TenantOfConversation(messages[obs[r].outbound].conversation_id) =
                    run[r].message.company_id
          /\ \A k \in 1..Len(run[r].history) :
                TenantOfConversation(messages[run[r].history[k].mid].conversation_id) =
                    run[r].message.company_id

C21_Witness ==
    /\ \E u \in 1..Len(users) : users[u].company_id = "t1"
    /\ \E u \in 1..Len(users) : users[u].company_id = "t2"
    /\ \E i \in 1..Len(messages) :
          TenantOfConversation(messages[i].conversation_id) = "t2"
    /\ \E r \in Runs :
          /\ run[r].message.company_id = "t1"
          /\ run[r].pc = "done"
          /\ TenantOfConversation(messages[obs[r].outbound].conversation_id) = "t1"

\* C22 (the claim): channel identifiers are unique within a tenant only. When
\* one external id sends a message under two tenants, each tenant gets its
\* own User and neither run fails because of the other tenant's user.
C22_SameIdUnderTwoTenants ==
    /\ \A r \in Runs : obs[r].cause # "IntegrityError"
    /\ \A a, b \in resolved :
          (a.channel = b.channel /\ a.user_id = b.user_id
                /\ a.company_id # b.company_id) => a.user # b.user

\* C23: the channel a users row was created for, read off the id column the
\* constructor fills
CreatedFor(u) ==
    CASE u.whatsapp_id # None -> "whatsapp"
      [] u.messenger_id # None -> "messenger"
      [] u.phone # None -> "voice"
      [] OTHER -> "web"

\* C23 (the claim): the channel is part of the identity. Two messages of one
\* tenant and one external id over different channels resolve to distinct
\* Users, and no message resolves to a User created for another channel.
C23_ChannelIsPartOfIdentity ==
    /\ \A a, b \in resolved :
          (a.company_id = b.company_id /\ a.user_id = b.user_id
                /\ a.channel # b.channel) => a.user # b.user
    /\ \A a \in resolved : CreatedFor(users[a.user]) = a.channel

\* C24: the transcript is append-only. No step of any run, successful, failed
\* or interleaved with another, removes a persisted Message or changes its
\* conversation, role, content or creation time; a step can only add rows.
C24_TranscriptAppendOnly ==
    [][/\ Len(messages') >= Len(messages)
       /\ \A i \in 1..Len(messages) :
             /\ messages'[i].conversation_id = messages[i].conversation_id
             /\ messages'[i].role = messages[i].role
             /\ messages'[i].content = messages[i].content
             /\ messages'[i].created_at = messages[i].created_at]_vars

\* two runs whose saves interleave, one of them failed after its inbound save
C24_Witness ==
    \E r, q \in Runs :
        /\ r # q
        /\ run[r].pc = "done"
        /\ run[q].pc = "failed"
        /\ obs[q].failed_step = "save_message"
        /\ obs[r].inbound # 0 /\ obs[q].inbound # 0
        /\ obs[r].inbound < obs[q].inbound
        /\ obs[q].inbound < obs[r].outbound
        /\ messages[obs[q].inbound].content = "hola"
        /\ messages[obs[r].outbound].role = "assistant"

\* C25: the events a task logs when an exception reached one of its handlers
ErrorEvents == {"twilio_send_error", "whatsapp_process_error"}

C26_GenerationCallBounded ==
    \A r \in Runs :
        (run[r].pc = "history_fetched") ~>
            (run[r].pc \in {"done", "failed"} /\ run[r].result # Nothing)

\* C27 (the claim): save_message writes the Message and the conversation's
\* last-activity time in one commit, so in every reachable state the
\* last-activity time of a conversation is not earlier than the creation time
\* of any of its messages, and a message persisted at time t keeps the
\* conversation reusable until t + window.
C27_LastActivityCoversEveryMessage ==
    \A i \in 1..Len(messages) :
        LET c == conversations[messages[i].conversation_id]
        IN /\ c.last_message_at >= messages[i].created_at
           /\ c.last_message_at + TimeoutMinutes >=
                  messages[i].created_at + TimeoutMinutes

\* C28: the rows of a conversation among the first `size` rows of messages
RowsOf(conversation_id, size) ==
    { i \in 1..size : messages[i].conversation_id = conversation_id }

\* C28: get_conversation_history(conversation, limit) returns the
\* min(limit, n) most recently created messages of that conversation and of
\* no other (n = the number of its messages), in ascending creation order,
\* each reduced to its role and content; it never returns more than limit
\* entries, and the history given to generation has at most 10 entries.
C28_HistoryIsTheLastMessages ==
    /\ fetched.conversation_id # 0 =>
          LET h == fetched.history
              rows == RowsOf(fetched.conversation_id, fetched.size)
              n == Cardinality(rows)
              from == { h[k].mid : k \in 1..Len(h) }
          IN /\ Len(h) = (IF fetched.limit < n THEN fetched.limit ELSE n)
             /\ Len(h) <= fetched.limit
             /\ from \subseteq rows
             /\ Cardinality(from) = Len(h)
             /\ \A i \in rows \ from, j \in from :
                   i < j /\ messages[i].created_at <= messages[j].created_at
             /\ \A k \in 1..Len(h) - 1 :
                   /\ h[k].mid < h[k + 1].mid
                   /\ messages[h[k].mid].created_at <= messages[h[k + 1].mid].created_at
             /\ \A k \in 1..Len(h) :
                   RoleContent(h)[k] = [role |-> messages[h[k].mid].role,
                                        content |-> messages[h[k].mid].content]
    /\ \A r \in Runs :
          /\ Len(run[r].history) <= 10
          /\ obs[r].request # Nothing => Len(obs[r].request[1].history) <= 10

\* a call with a limit below the number of messages of the conversation,
\* while another conversation has messages too
C28_Witness ==
    /\ fetched.conversation_id # 0
    /\ fetched.limit = 3
    /\ Cardinality(RowsOf(fetched.conversation_id, fetched.size)) = 4
    /\ Len(fetched.history) = 3
    /\ fetched.history[1].role = "assistant"
    /\ \E i \in 1..fetched.size :
          /\ messages[i].conversation_id # fetched.conversation_id
          /\ \E k \in 1..Len(fetched.history) : i > fetched.history[k].mid

\* C29: the latency metric stored on the outbound message is the time from
\* the start of process_message to the moment generation returned, whatever
\* time passes before the save; it is not negative; every assistant message
\* carries one and no user message does.
C29_LatencyIsReceivedToGenerated ==
    /\ \A r \in Runs :
          obs[r].outbound # 0 =>
              LET m == messages[obs[r].outbound]
              IN /\ m.role = "assistant"
                 /\ m.response_time_ms =
                        Some((obs[r].generated_at - obs[r].arrival) * 60000)
                 /\ m.response_time_ms[1] >= 0
    /\ \A i \in 1..Len(messages) :
          /\ messages[i].role = "assistant" =>
                /\ messages[i].response_time_ms # Nothing
                /\ messages[i].response_time_ms[1] >= 0
          /\ messages[i].role = "user" => messages[i].response_time_ms = Nothing

\* a run that started after minute 0, waited for the language model and
\* saved the reply later still
C29_Witness ==
    \E r \in Runs :
        /\ obs[r].outbound # 0
        /\ obs[r].arrival > 0
        /\ obs[r].generated_at > obs[r].arrival
        /\ messages[obs[r].outbound].created_at > obs[r].generated_at
        /\ messages[obs[r].outbound].response_time_ms[1] > 0

\* C30: the texts of the language model that end in a canned closing phrase
EndsInClosingPhrase == {"Con gusto. ¿Hay algo más en que pueda ayudarte?"}

\* C30 (the claim): on success generate_ai_response returns the model's text
\* with every known closing phrase removed; a model output that ends in such
\* a phrase is never returned or persisted with the phrase still in it.
C30_ClosingPhrasesStripped ==
    /\ \A r \in Runs :
          /\ (obs[r].request # Nothing /\ obs[r].request[1].outcome = "ok") =>
                run[r].response[1].message \notin EndsInClosingPhrase
          /\ run[r].result # Nothing =>
                run[r].result[1].message \notin EndsInClosingPhrase
    /\ \A i \in 1..Len(messages) :
          messages[i].role = "assistant" =>
              messages[i].content \notin EndsInClosingPhrase

\* C31: the rows run r has persisted, with the conversation, role and
\* content it wrote
PersistedBy(r) ==
    /\ obs[r].inbound \in 1..Len(messages)
    /\ obs[r].outbound \in 1..Len(messages)
    /\ messages[obs[r].inbound] =
          [conversation_id |-> run[r].conversation, role |-> "user",
           content |-> run[r].message.message,
           response_time_ms |-> Nothing,
           created_at |-> messages[obs[r].inbound].created_at]
    /\ messages[obs[r].outbound].conversation_id = run[r].conversation
    /\ messages[obs[r].outbound].role = "assistant"
    /\ messages[obs[r].outbound].content = run[r].result[1].message

\* C31: concurrent messages of one user lose no transcript entry. Two runs
\* for one identity that find its fresh active conversation use that
\* conversation, whatever their interleaving, and their two inbound and two
\* outbound messages are four distinct rows of it.
C31_ConcurrentRunsLoseNoMessage ==
    \A r, q \in Runs :
        (r # q /\ run[r].pc = "done" /\ run[q].pc = "done"
             /\ obs[r].reused /\ obs[q].reused
             /\ SameIdentity(run[r].message, run[q].message)) =>
            /\ run[r].conversation = run[q].conversation
            /\ PersistedBy(r) /\ PersistedBy(q)
            /\ Cardinality({obs[r].inbound, obs[r].outbound,
                            obs[q].inbound, obs[q].outbound}) = 4
            /\ Cardinality({ i \in 1..Len(messages) :
                               messages[i].conversation_id = run[r].conversation })
                  = Len(messages)

\* two runs whose saves interleave in the conversation an earlier run created
C31_Witness ==
    \E r, q \in Runs :
        /\ r # q /\ run[r].pc = "done" /\ run[q].pc = "done"
        /\ obs[r].reused /\ obs[q].reused
        /\ obs[r].inbound < obs[q].inbound
        /\ obs[q].inbound < obs[r].outbound
        /\ obs[r].outbound < obs[q].outbound
        /\ Len(messages) = 6
        /\ run[r].message.message # run[q].message.message

\* C32: update_user_lead_status(user, s) overwrites the lead status of an
\* existing user with s whatever the current status and whatever s, stamps
\* updated_at, and changes no other user, no other column, no conversation
\* and no message; for an id no user has it changes nothing and does not
\* raise.
C32_LeadStatusOverwrite ==
    [][ updated' # updated =>
          LET u == updated'.user_id
          IN /\ ~updated'.raised
             /\ Len(users') = Len(users)
             /\ \A i \in 1..Len(users) :
                   IF i = u
                   THEN /\ users'[i].lead_status = updated'.status
                        /\ users'[i].updated_at = now
                        /\ users'[i].company_id = users[i].company_id
                        /\ users'[i].whatsapp_id = users[i].whatsapp_id
                        /\ users'[i].messenger_id = users[i].messenger_id
                        /\ users'[i].phone = users[i].phone
                        /\ users'[i].created_at = users[i].created_at
                        /\ users'[i].last_interaction = users[i].last_interaction
                   ELSE users'[i] = users[i]
             /\ UNCHANGED <<conversations, messages>> ]_vars

\* a hot lead set back to nuevo by a later call, another user untouched
C32_Witness ==
    /\ updated.n > 0
    /\ updated.user_id \in 1..Len(users)
    /\ updated.before = "caliente"
    /\ updated.status = "nuevo"
    /\ users[updated.user_id].lead_status = "nuevo"
    /\ users[updated.user_id].updated_at > users[updated.user_id].created_at
    /\ \E i \in 1..Len(users) : i # updated.user_id /\ users[i].lead_status = "interesado"

\* C33 (the claim): in every reachable state, interleaved runs included,
\* at most one conversation per (user, channel) is active with its last
\* activity inside the window, so the lookup of get_or_create_conversation
\* never matches more than one row.
C33_OneFreshConversation ==
    /\ \A u \in 1..Len(users), ch \in Channels :
          Cardinality(ConversationQuery(u, ch, TimeoutMinutes)) <= 1
    /\ \A r \in Runs :
          /\ Cardinality(obs[r].matching) <= 1
          /\ obs[r].cause # "MultipleResultsFound"

\* C34 (the claim): no store state wedges an identity. Whatever failed or
\* interleaved before, a run in which the storage and the collaborators work
\* is processed to done with a persisted reply: a run ends in failed only
\* through a storage failure of its own, never because get_or_create_user or
\* get_or_create_conversation raises on the rows it finds.
C34_NoIdentityWedged ==
    \A r \in Runs :
        /\ run[r].pc = "failed" => obs[r].cause = "storage"
        /\ obs[r].cause \notin {"IntegrityError", "MultipleResultsFound"}
        /\ run[r].pc = "done" =>
              /\ obs[r].outbound \in 1..Len(messages)
              /\ messages[obs[r].outbound].role = "assistant"

\* C35 (the claim): whenever a run has persisted an assistant message, the
\* text it returns to the caller is the content of that message, also when a
\* step after the outbound save fails.
C35_ReturnedTextIsPersistedText ==
    \A r \in Runs :
        (obs[r].outbound # 0 /\ run[r].result # Nothing) =>
            run[r].result[1].message = messages[obs[r].outbound].content

\* C35, amended: a run that ends in done returns the content of the
\* assistant message it persisted. A run that has persisted its assistant
\* message and then fails can only have failed in update_user_lead_status;
\* it returns the orchestrator's fixed fallback, while the transcript keeps
\* the generated reply.
C35_ReturnedTextIsPersistedTextWhenDone ==
    \A r \in Runs :
        /\ run[r].pc = "done" =>
              /\ obs[r].outbound \in 1..Len(messages)
              /\ messages[obs[r].outbound].role = "assistant"
              /\ run[r].result[1].message = messages[obs[r].outbound].content
        /\ (run[r].pc = "failed" /\ obs[r].outbound # 0) =>
              /\ obs[r].failed_step = "update_user_lead_status"
              /\ run[r].result[1].message =
                    "Disculpa, tuve un problema. ¿Podrías intentar de nuevo?"
              /\ messages[obs[r].outbound].content = run[r].response[1].message

C35_Witness ==
    \E r \in Runs :
        /\ run[r].pc = "failed"
        /\ obs[r].failed_step = "update_user_lead_status"
        /\ messages[obs[r].outbound].content = "ok"
        /\ run[r].result[1].message =
              "Disculpa, tuve un problema. ¿Podrías intentar de nuevo?"
        /\ obs[r].prev # Nothing

\* C36: the two fallback texts of generate_ai_response
GeneratorFallbackTexts ==
    {"Disculpa, tengo problemas técnicos. ¿Podrías intentar de nuevo?",
     "Ocurrió un error. Por favor intenta de nuevo."}

\* C36: a generation failure does not send the pipeline to failed. The run
\* goes on to the outbound save and, the storage working, to done without a
\* lead-status step; the generator's fallback text is persisted as an
\* assistant message with a latency metric, the user's lead status is
\* unchanged, and a later history fetch of the conversation returns the
\* fallback message.
C36_GenerationFailureIsNotFailed ==
    \A r \in Runs :
        /\ (obs[r].request # Nothing /\ obs[r].request[1].outcome # "ok") =>
              /\ obs[r].failed_step # "generate_ai_response"
              /\ run[r].pc \in {"generated", "outbound_persisted", "done", "failed"}
              /\ run[r].pc = "failed" =>
                    (obs[r].failed_step = "save_message" /\ obs[r].cause = "storage")
              /\ "lead_updated" \notin { obs[r].trace[k] : k \in 1..Len(obs[r].trace) }
              /\ users[run[r].user].lead_status = obs[r].lead_before
              /\ obs[r].outbound # 0 =>
                    /\ messages[obs[r].outbound].role = "assistant"
                    /\ messages[obs[r].outbound].content \in GeneratorFallbackTexts
                    /\ messages[obs[r].outbound].response_time_ms # Nothing
                    /\ messages[obs[r].outbound].conversation_id = run[r].conversation
              /\ run[r].pc = "done" =>
                    /\ obs[r].outbound # 0
                    /\ run[r].result[1].message \in GeneratorFallbackTexts
        /\ run[r].pc \in {"history_fetched", "generated", "outbound_persisted",
                           "lead_updated", "done"} =>
              \A i \in 1..Len(messages) :
                  (/\ i < obs[r].inbound
                   /\ messages[i].conversation_id = run[r].conversation
                   /\ messages[i].role = "assistant"
                   /\ messages[i].content \in GeneratorFallbackTexts) =>
                      \E k \in 1..Len(run[r].history) :
                          /\ run[r].history[k].mid = i
                          /\ run[r].history[k].role = "assistant"
                          /\ run[r].history[k].content = messages[i].content

\* a run whose generation failed reached done, after a run of the same
\* conversation whose fallback reply it read back in its history
C36_Witness ==
    \E r \in Runs :
        /\ run[r].pc = "done"
        /\ obs[r].request[1].outcome = "error"
        /\ obs[r].trace = <<"received", "user_resolved", "conversation_resolved",
                            "inbound_persisted", "history_fetched", "generated",
                            "outbound_persisted", "done">>
        /\ obs[r].lead_before = "nuevo"
        /\ \E k \in 1..Len(run[r].history) :
              /\ run[r].history[k].role = "assistant"
              /\ run[r].history[k].content =
                    "Disculpa, tengo problemas técnicos. ¿Podrías intentar de nuevo?"

\* C37: the core never changes a conversation's status or end time. Every
\* conversation is active and has no end time in every reachable state, also
\* after a response with action escalate; the message after it lands in the
\* same conversation exactly when its lookup is at most the window after the
\* conversation's last activity, whatever the action of the reply before.
C37_ConversationStaysActive ==
    /\ \A c \in 1..Len(conversations) :
          /\ conversations[c].status = "active"
          /\ conversations[c].ended_at = Nothing
    /\ \A r \in Runs :
          (run[r].result # Nothing /\ run[r].result[1].action = "escalate") =>
              /\ conversations[run[r].conversation].status = "active"
              /\ conversations[run[r].conversation].ended_at = Nothing
    /\ \A r \in Runs :
          (obs[r].prev # Nothing /\ run[r].conversation # 0) =>
              (run[r].conversation = obs[r].prev[1].conversation <=>
                  /\ run[r].user = obs[r].prev[1].user
                  /\ obs[r].looked_up - obs[r].prev[1].last_activity <= 30)

\* the message after an escalated reply, 29 or 30 minutes later, in the same
\* conversation
C37_Witness ==
    \E r \in Runs :
        /\ obs[r].prev # Nothing
        /\ obs[r].prev[1].message.message = "un humano"
        /\ \E i \in 1..Len(messages) :
              /\ messages[i].conversation_id = obs[r].prev[1].conversation
              /\ messages[i].content = "un humano"
        /\ run[r].pc = "done"
        /\ run[r].conversation = obs[r].prev[1].conversation
        /\ obs[r].looked_up > obs[r].prev[1].last_activity

\* C38 (the claim): the reply to an inbound WhatsApp message goes back to
\* its originator. Every message handed to Twilio is addressed to the number
\* an inbound message came from (From) and is sent from the number that
\* inbound message was addressed to (To).
C38_ReplyGoesToTheSender ==
    \A k \in 1..Len(outbox) :
        /\ \E f \in Senders : outbox[k].to = <<"whatsapp:", f>>
        /\ \E t \in Receivers : outbox[k].from_ = <<"whatsapp:", t>>

\* C39 (the claim): in the result of detect_escalation_patterns,
\* escalation_requests never exceeds total_messages, each user message of the
\* tenant counting at most once; escalation_rate_percent lies between 0 and
\* 100; and status is "healthy" exactly when fewer than 10 percent of the
\* tenant's user messages contain an escalation keyword.
C39_EscalationsWithinMessages ==
    detected.called =>
        LET result == detected.result
            containing ==
                Cardinality({ i \in detected.rows :
                    \E k \in 1..Len(escalation_keywords) :
                        Ilike(messages[i].content, escalation_keywords[k]) })
        IN /\ result.total_messages = Cardinality(detected.rows)
           /\ result.escalation_requests = containing
           /\ result.escalation_requests <= result.total_messages
           /\ result.escalation_rate_percent >= 0
           /\ result.escalation_rate_percent <= 10000
           /\ result.status = "healthy" <=>
                 100 * containing < 10 * Max(result.total_messages, 1)

====
